---- MODULE Spec2Model ----
(***************************************************************************)
(* Inventory ledger of Proyecto-Doeat (src/app/routes/products.py).        *)
(*                                                                         *)
(* The relational store is the shared state.  Every request works in its   *)
(* own SQLAlchemy session: a query reads the committed rows, the objects   *)
(* it loads are changed in memory only, db.flush()/db.add() stay inside    *)
(* the open transaction and db.commit() makes all pending changes visible  *)
(* at once.  The handlers ask for no row lock (no with_for_update) and no  *)
(* isolation level, so a query sees the latest committed row and the       *)
(* UPDATE of a commit writes the value computed in memory.  Every          *)
(* request is a process whose steps are its store accesses.  The handlers  *)
(* are coroutines that never await, so one server process runs them one    *)
(* after the other (SeqSpec, the server main.py starts); several server    *)
(* processes on the same store interleave them (Spec).                     *)
(*                                                                         *)
(* Prices are integers (currency units); float rounding is not modelled.   *)
(*                                                                         *)
(* QuerySpec adds the read handlers of routes/products.py and              *)
(* routes/reports.py to the single server process.  AuthSpec is the        *)
(* account side (routes/auth.py, services/user_service.py): registration,  *)
(* verification and reset tokens, login, the get_current_user and          *)
(* get_admin_user dependencies, and delete_product behind its dependency.  *)
(***************************************************************************)
EXTENDS Integers, Sequences, FiniteSets, TLC

MaxCalls == 2      \* requests issued in one behaviour
MaxReq == 2        \* requests in flight at the same time
MaxQty == 2        \* largest quantity a caller supplies for a product

Requests == 1..MaxReq
ProductIds == {1, 2}                  \* ids callers name; 2 may not exist
Names == {"a", "b"}
Prices == {2}
LineQtys == {1, 2}
LineCounts == {0, 1, 2}               \* lines in one sale or purchase
Deltas == {-2, -1, 1}
UnitCosts == {3}                      \* purchase unit_price, never a list price

\* get_stock_movements: an Optional query parameter is <<>> (None) or <<value>>
ProductFilters == {<<>>, <<0>>, <<1>>}
TypeFilters == {<<>>, <<"venta">>}
Skips == {0, 1}
Limits == {1}

\* the other read handlers
Searches == {<<>>, <<"a">>}           \* get_products: search
DateBounds == {<<>>, <<2>>}           \* start_date, end_date
HeaderIds == {1, 2}                   \* sale_id, purchase_id
Thresholds == {0, 1}                  \* low_stock_threshold

VARIABLES
    products,         \* products table: id -> [name, price, quantity]
    movements,        \* stock_movements table, in insertion order
    sales,            \* sales table: id -> [total_amount]
    saleItems,        \* sale_items table
    purchases,        \* purchases table: id -> [total_amount]
    purchaseItems,    \* purchase_items table
    nextProductId,    \* autoincrement of products.id
    nextMovementId,   \* autoincrement of stock_movements.id
    nextSaleId,       \* autoincrement of sales.id
    nextPurchaseId,   \* autoincrement of purchases.id
    fkEnforced,       \* whether the store enforces the declared foreign keys:
                      \* "on" or "off", "unknown" until a commit depends on it
    workers,          \* server processes handling requests on the store
    req,              \* the requests: handler, position, session, outcome
    calls,            \* number of requests issued so far
    users,            \* users table: id -> [username, email, password, role, is_active]
    nextUserId,       \* autoincrement of users.id
    verification_tokens,  \* UserService.verification_tokens: token -> [user_id, expires_at]
    reset_tokens,     \* UserService.reset_tokens: token -> [user_id, expires_at]
    nextToken,        \* the next value of uuid4(): no value comes twice
    now,              \* datetime.utcnow(), in half hours
    bearer,           \* the access token the next request carries: <<>> or <<payload>>
    issued,           \* the access tokens login has handed out
    reply,            \* the answer to the account request of the last step
    authCalls         \* number of account requests and clock advances so far

db == <<products, movements, sales, saleItems, purchases, purchaseItems>>
ids == <<nextProductId, nextMovementId, nextSaleId, nextPurchaseId>>
auth == <<users, nextUserId, verification_tokens, reset_tokens, nextToken, now,
          bearer, issued, reply, authCalls>>
vars == <<products, movements, sales, saleItems, purchases, purchaseItems,
          nextProductId, nextMovementId, nextSaleId, nextPurchaseId,
          fkEnforced, workers, req, calls, auth>>

----------------------------------------------------------------------------
(* Rows *)

Product(name, price, quantity) ==
    [name |-> name, price |-> price, quantity |-> quantity]

StockMovement(product_id, quantity_change, movement_type, reference, notes) ==
    [product_id |-> product_id, quantity_change |-> quantity_change,
     movement_type |-> movement_type, reference |-> reference, notes |-> notes]

LineItem(header_id, product_id, quantity, unit_price, subtotal) ==
    [header_id |-> header_id, product_id |-> product_id, quantity |-> quantity,
     unit_price |-> unit_price, subtotal |-> subtotal]

InitialNote == <<"Inventario inicial al crear el producto">>

----------------------------------------------------------------------------
(* Generic helpers *)

RECURSIVE SumField(_, _)
SumField(s, f) == IF s = <<>> THEN 0 ELSE Head(s)[f] + SumField(Tail(s), f)

Count(s, P(_)) == Len(SelectSeq(s, P))

\* the rows of s as one commit inserts them: numbered from id `first`
\* (autoincrement) and dated by movement_date's server default now(), the same
\* for the rows of one commit, later than that of the commits before
Numbered(s, first) ==
    [k \in 1..Len(s) |-> [id |-> first + k - 1, movement_date |-> first] @@ s[k]]

\* the line items of a header (Sale.items, Purchase.items)
OfHeaderRows(rows, hid) ==
    LET Owned(row) == row.header_id = hid IN SelectSeq(rows, Owned)

LedgerSum(movs, pid) ==
    LET Of(m) == m.product_id = pid
    IN  SumField(SelectSeq(movs, Of), "quantity_change")

----------------------------------------------------------------------------
(* Sessions *)

IdleReq ==
    [kind |-> "none", pc |-> "idle", args |-> <<>>, loaded |-> <<>>, mem |-> <<>>,
     items |-> <<>>, movs |-> <<>>, hid |-> 0, total |-> 0, i |-> 0,
     outcome |-> "none", response |-> <<>>]

Free(r) == req[r].pc \in {"idle", "done"}
InFlight(r) == ~Free(r)

\* a new request needs an idle server process; it takes the lowest free slot
CanStart(r) ==
    /\ calls < MaxCalls
    /\ Cardinality({s \in Requests : InFlight(s)}) < workers
    /\ Free(r)
    /\ \A s \in Requests : s < r => InFlight(s)

Started(kind, pc, args) ==
    [IdleReq EXCEPT !.kind = kind, !.pc = pc, !.args = args]

\* the response is sent and the session is closed: what was not committed is gone
Finished(s, outcome) ==
    [s EXCEPT !.pc = "done", !.outcome = outcome, !.loaded = <<>>, !.mem = <<>>,
              !.items = <<>>, !.movs = <<>>]

----------------------------------------------------------------------------
(* Store access of a session *)

\* db.query(Product).filter(Product.id == pid).first() is not None
Exists(pid) == pid \in DOMAIN products

\* mutant: every query returns the committed row, in-memory changes ignored
ViewCommitted(s, pid) == products[pid]

\* the Product object the query returns: the one already in the session's
\* identity map (with its in-memory changes), else the committed row
View(s, pid) == IF pid \in DOMAIN s.mem THEN s.mem[pid] ELSE products[pid]

\* the session after the query loaded product pid
Loaded(s, pid) ==
    IF pid \in DOMAIN s.mem THEN s
    ELSE [s EXCEPT !.loaded = (pid :> products[pid]) @@ @,
                   !.mem = (pid :> products[pid]) @@ @]

NameTaken(name) == \E p \in DOMAIN products : products[p].name = name

Dirty(s) == {p \in DOMAIN s.mem : s.mem[p] # s.loaded[p]}

\* UPDATE ... WHERE id = p matches no row: StaleDataError
StaleWrite(s) == \E p \in Dirty(s) : p \notin DOMAIN products

\* products.name is unique
UniqueViolation(s) ==
    \E p \in Dirty(s) :
        /\ s.mem[p].name # s.loaded[p].name
        /\ \E o \in DOMAIN products \ {p} : products[o].name = s.mem[p].name

\* an inserted row names a product that is gone
Dangling(s) ==
    \/ \E k \in 1..Len(s.movs) : s.movs[k].product_id \notin DOMAIN products
    \/ \E k \in 1..Len(s.items) : s.items[k].product_id \notin DOMAIN products

\* what the store turns out to do with a foreign key, when a commit depends on it
FkObserved(depends) ==
    IF depends /\ fkEnforced = "unknown" THEN {"on", "off"} ELSE {fkEnforced}

CommitFails(s, fk) ==
    StaleWrite(s) \/ UniqueViolation(s) \/ (Dangling(s) /\ fk = "on")

\* the UPDATE of a flush sets the columns changed in memory, and only those
Written(s, p) ==
    [f \in {"name", "price", "quantity"} |->
        IF s.mem[p][f] # s.loaded[p][f] THEN s.mem[p][f] ELSE products[p][f]]

\* db.commit(): products updated, pending movements inserted, all at once
CommitLedger(s) ==
    /\ products' = [p \in DOMAIN products |->
                        IF p \in Dirty(s) THEN Written(s, p) ELSE products[p]]
    /\ movements' = movements \o Numbered(s.movs, nextMovementId)
    /\ nextMovementId' = nextMovementId + Len(s.movs)

Others == <<sales, saleItems, purchases, purchaseItems>>

----------------------------------------------------------------------------
(* create_product *)

CreateProductCall(r) ==
    /\ CanStart(r)
    /\ \E name \in Names, price \in Prices, quantity \in 0..MaxQty :
          /\ calls' = calls + 1
          /\ req' = [req EXCEPT ![r] =
                        LET s == Started("create_product", "insert",
                                         Product(name, price, quantity))
                        IN  IF NameTaken(name) THEN Finished(s, "400_name") ELSE s]
          /\ UNCHANGED <<db, ids, fkEnforced, workers, auth>>

\* mutant: products.name without its unique constraint
CreateProductInsertNoConstraint(r) ==
    LET s == req[r] IN
    /\ s.kind = "create_product" /\ s.pc = "insert"
    /\ products' = (nextProductId :> s.args) @@ products
    /\ nextProductId' = nextProductId + 1
    /\ req' = [req EXCEPT ![r] =
                  IF s.args.quantity > 0
                  THEN [s EXCEPT !.pc = "movement", !.hid = nextProductId]
                  ELSE Finished([s EXCEPT !.hid = nextProductId], "ok")]
    /\ UNCHANGED <<movements, Others, nextMovementId, nextSaleId, nextPurchaseId,
                   fkEnforced, workers, auth, calls>>

\* mutant: the movement is recorded whatever the starting quantity
CreateProductInsertAlwaysMoves(r) ==
    LET s == req[r] IN
    /\ s.kind = "create_product" /\ s.pc = "insert"
    /\ IF NameTaken(s.args.name)
       THEN /\ req' = [req EXCEPT ![r] = Finished(s, "500")]
            /\ UNCHANGED <<products, nextProductId>>
       ELSE /\ products' = (nextProductId :> s.args) @@ products
            /\ nextProductId' = nextProductId + 1
            /\ req' = [req EXCEPT ![r] =
                          [s EXCEPT !.pc = "movement", !.hid = nextProductId]]
    /\ UNCHANGED <<movements, Others, nextMovementId, nextSaleId, nextPurchaseId,
                   fkEnforced, workers, auth, calls>>

\* first db.commit(): the product row, quantity included
CreateProductInsert(r) ==
    LET s == req[r] IN
    /\ s.kind = "create_product" /\ s.pc = "insert"
    /\ IF NameTaken(s.args.name)
       THEN /\ req' = [req EXCEPT ![r] = Finished(s, "500")]
            /\ UNCHANGED <<products, nextProductId>>
       ELSE /\ products' = (nextProductId :> s.args) @@ products
            /\ nextProductId' = nextProductId + 1
            /\ req' = [req EXCEPT ![r] =
                          IF s.args.quantity > 0
                          THEN [s EXCEPT !.pc = "movement", !.hid = nextProductId]
                          ELSE Finished([s EXCEPT !.hid = nextProductId], "ok")]
    /\ UNCHANGED <<movements, Others, nextMovementId, nextSaleId, nextPurchaseId,
                   fkEnforced, workers, auth, calls>>

\* second db.commit(): the 'inventario_inicial' movement
CreateProductMovement(r) ==
    LET s == req[r]
        t == [s EXCEPT !.movs = <<StockMovement(s.hid, s.args.quantity,
                                    "inventario_inicial", <<>>, InitialNote)>>]
    IN
    /\ s.kind = "create_product" /\ s.pc = "movement"
    /\ \E fk \in FkObserved(Dangling(t)) :
          /\ fkEnforced' = fk
          /\ IF CommitFails(t, fk)
             THEN /\ req' = [req EXCEPT ![r] = Finished(s, "500")]
                  /\ UNCHANGED <<products, movements, nextMovementId>>
             ELSE /\ CommitLedger(t)
                  /\ req' = [req EXCEPT ![r] = Finished(s, "ok")]
    /\ UNCHANGED <<Others, nextProductId, nextSaleId, nextPurchaseId,
                   workers, auth, calls>>

----------------------------------------------------------------------------
(* update_product *)

\* product_data.dict(exclude_unset=True): the fields the caller sent
UpdateBodies ==
    {<<>>}
    \cup {[quantity |-> q] : q \in 0..MaxQty}
    \cup {[name |-> n] : n \in Names}
    \cup {[price |-> c] : c \in Prices}
    \cup {[name |-> "b", quantity |-> MaxQty]}

\* for key, value in product_data_dict.items(): setattr(product, key, value)
SetAttrs(product, body) ==
    [f \in DOMAIN product |-> IF f \in DOMAIN body THEN body[f] ELSE product[f]]

\* mutant: a movement for every update that sends a quantity, changed or not
AdjustmentAlways(pid, old_quantity, body) ==
    IF "quantity" \in DOMAIN body
    THEN <<StockMovement(pid, body.quantity - old_quantity, "ajuste", <<>>,
                         <<"Ajuste manual", old_quantity, body.quantity>>)>>
    ELSE <<>>

\* mutant: the change is computed as old - new
AdjustmentReversed(pid, old_quantity, body) ==
    IF "quantity" \in DOMAIN body /\ body.quantity # old_quantity
    THEN <<StockMovement(pid, old_quantity - body.quantity, "ajuste", <<>>,
                         <<"Ajuste manual", old_quantity, body.quantity>>)>>
    ELSE <<>>

\* the 'ajuste' movement update_product adds, if any
Adjustment(pid, old_quantity, body) ==
    IF "quantity" \in DOMAIN body /\ body.quantity # old_quantity
    THEN <<StockMovement(pid, body.quantity - old_quantity, "ajuste", <<>>,
                         <<"Ajuste manual", old_quantity, body.quantity>>)>>
    ELSE <<>>

UpdateProductCall(r) ==
    /\ CanStart(r)
    /\ \E pid \in ProductIds, body \in UpdateBodies :
          /\ calls' = calls + 1
          /\ req' = [req EXCEPT ![r] =
                LET s == Started("update_product", "commit", [product_id |-> pid, body |-> body])
                IN  IF ~Exists(pid) THEN Finished(s, "404")
                    ELSE LET product == products[pid] IN
                         IF "name" \in DOMAIN body /\ body.name # product.name
                            /\ NameTaken(body.name)
                         THEN Finished(s, "400_name")
                         ELSE [Loaded(s, pid) EXCEPT
                                  !.mem = (pid :> SetAttrs(product, body)) @@ @,
                                  !.movs = Adjustment(pid, product.quantity, body)]]
          /\ UNCHANGED <<db, ids, fkEnforced, workers, auth>>

UpdateProductCommit(r) ==
    LET s == req[r] IN
    /\ s.kind = "update_product" /\ s.pc = "commit"
    /\ \E fk \in FkObserved(Dangling(s)) :
          /\ fkEnforced' = fk
          /\ IF CommitFails(s, fk)
             THEN /\ req' = [req EXCEPT ![r] = Finished(s, "500")]
                  /\ UNCHANGED <<products, movements, nextMovementId>>
             ELSE /\ CommitLedger(s)
                  /\ req' = [req EXCEPT ![r] = Finished(s, "ok")]
    /\ UNCHANGED <<Others, nextProductId, nextSaleId, nextPurchaseId, workers, auth, calls>>

----------------------------------------------------------------------------
(* delete_product *)

\* mutant: the delete goes ahead without the lookup
DeleteProductCallUnchecked(r) ==
    /\ CanStart(r)
    /\ \E pid \in ProductIds :
          /\ calls' = calls + 1
          /\ req' = [req EXCEPT ![r] =
                LET s == Started("delete_product", "commit", [product_id |-> pid])
                IN  IF ~Exists(pid) THEN s ELSE Loaded(s, pid)]
          /\ UNCHANGED <<db, ids, fkEnforced, workers, auth>>

DeleteProductCall(r) ==
    /\ CanStart(r)
    /\ \E pid \in ProductIds :
          /\ calls' = calls + 1
          /\ req' = [req EXCEPT ![r] =
                LET s == Started("delete_product", "commit", [product_id |-> pid])
                IN  IF ~Exists(pid) THEN Finished(s, "404") ELSE Loaded(s, pid)]
          /\ UNCHANGED <<db, ids, fkEnforced, workers, auth>>

\* mutant: the delete takes every movement with it, not the product's only
DeleteProductCommitWipesLedger(r) ==
    LET s == req[r]
        pid == s.args.product_id
        NotOf(row) == row.product_id # pid
        Purchased == \E k \in 1..Len(purchaseItems) : purchaseItems[k].product_id = pid
    IN
    /\ s.kind = "delete_product" /\ s.pc = "commit"
    /\ \E fk \in FkObserved(Exists(pid) /\ Purchased) :
          /\ fkEnforced' = fk
          /\ IF Exists(pid) /\ Purchased /\ fk = "on"
             THEN /\ req' = [req EXCEPT ![r] = Finished(s, "500")]
                  /\ UNCHANGED <<products, movements, saleItems>>
             ELSE /\ products' = [p \in DOMAIN products \ {pid} |-> products[p]]
                  /\ movements' = <<>>
                  /\ saleItems' = SelectSeq(saleItems, NotOf)
                  /\ req' = [req EXCEPT ![r] = Finished(s, "ok")]
    /\ UNCHANGED <<sales, purchases, purchaseItems, ids, workers, auth, calls>>

\* db.delete(product); db.commit(): the row and, by the ORM cascade of
\* Product.movements and Product.sale_items, its movements and sale items.
\* purchase_items has no cascade: its foreign key stops the delete when the
\* store enforces it, else the rows stay.
DeleteProductCommit(r) ==
    LET s == req[r]
        pid == s.args.product_id
        NotOf(row) == row.product_id # pid
        Purchased == \E k \in 1..Len(purchaseItems) : purchaseItems[k].product_id = pid
    IN
    /\ s.kind = "delete_product" /\ s.pc = "commit"
    /\ \E fk \in FkObserved(Exists(pid) /\ Purchased) :
          /\ fkEnforced' = fk
          /\ IF Exists(pid) /\ Purchased /\ fk = "on"
             THEN /\ req' = [req EXCEPT ![r] = Finished(s, "500")]
                  /\ UNCHANGED <<products, movements, saleItems>>
             ELSE /\ products' = [p \in DOMAIN products \ {pid} |-> products[p]]
                  /\ movements' = SelectSeq(movements, NotOf)
                  /\ saleItems' = SelectSeq(saleItems, NotOf)
                  /\ req' = [req EXCEPT ![r] = Finished(s, "ok")]
    /\ UNCHANGED <<sales, purchases, purchaseItems, ids, workers, auth, calls>>

----------------------------------------------------------------------------
(* create_stock_movement *)

\* mutant: the change is subtracted in the stock check
InsufficientStockSignSlip(quantity, quantity_change) ==
    quantity_change < 0 /\ quantity - quantity_change < 0

\* "Verificar si es una salida y hay suficiente stock"
InsufficientStock(quantity, quantity_change) ==
    quantity_change < 0 /\ quantity + quantity_change < 0

CreateStockMovementCall(r) ==
    /\ CanStart(r)
    /\ \E pid \in ProductIds, quantity_change \in Deltas :
          /\ calls' = calls + 1
          /\ req' = [req EXCEPT ![r] =
                LET s == Started("create_stock_movement", "commit",
                                 [product_id |-> pid, quantity_change |-> quantity_change])
                IN  IF ~Exists(pid) THEN Finished(s, "404")
                    ELSE LET product == products[pid] IN
                         IF InsufficientStock(product.quantity, quantity_change)
                         THEN Finished(s, "400_stock")
                         ELSE [Loaded(s, pid) EXCEPT
                                  !.mem = (pid :> [product EXCEPT
                                              !.quantity = @ + quantity_change]) @@ @,
                                  !.movs = <<StockMovement(pid, quantity_change, "ajuste",
                                                           <<>>, <<>>)>>]]
          /\ UNCHANGED <<db, ids, fkEnforced, workers, auth>>

CreateStockMovementCommit(r) ==
    LET s == req[r] IN
    /\ s.kind = "create_stock_movement" /\ s.pc = "commit"
    /\ \E fk \in FkObserved(Dangling(s)) :
          /\ fkEnforced' = fk
          /\ IF CommitFails(s, fk)
             THEN /\ req' = [req EXCEPT ![r] = Finished(s, "500")]
                  /\ UNCHANGED <<products, movements, nextMovementId>>
             ELSE /\ CommitLedger(s)
                  /\ req' = [req EXCEPT ![r] = Finished(s, "ok")]
    /\ UNCHANGED <<Others, nextProductId, nextSaleId, nextPurchaseId, workers, auth, calls>>

----------------------------------------------------------------------------
(* create_sale *)

\* the item lists of a request body: every list over S of a length in LineCounts
ItemLists(S) == UNION {[1..n -> S] : n \in LineCounts}

SaleLines == [product_id : ProductIds, quantity : LineQtys]
PurchaseLines == [product_id : ProductIds, quantity : {1}, unit_price : UnitCosts]

\* mutant: the stock check is off by one
StockShortOffByOne(quantity, requested) == quantity < requested - 1

\* "Verificar stock"
StockShort(quantity, requested) == quantity < requested

Subtotal(unit_price, quantity) == unit_price * quantity

\* mutant: the reference names the id after the header's
SaleReferenceNextId(sale_id) == <<"Venta #", sale_id + 1>>

SaleReference(sale_id) == <<"Venta #", sale_id>>
PurchaseReference(purchase_id) == <<"Compra #", purchase_id>>

\* mutant: db.commit() in place of db.flush(): the header row is committed
\* with its placeholder total before the lines are processed
CreateSaleCallCommitsHeader(r) ==
    /\ CanStart(r)
    /\ \E items \in ItemLists(SaleLines) :
          /\ calls' = calls + 1
          /\ LET s == Started("create_sale", "line", [items |-> items]) IN
             IF Len(items) = 0
             THEN /\ req' = [req EXCEPT ![r] = Finished(s, "400_empty")]
                  /\ UNCHANGED <<nextSaleId, sales>>
             ELSE /\ req' = [req EXCEPT ![r] = [s EXCEPT !.hid = nextSaleId, !.i = 1]]
                  /\ nextSaleId' = nextSaleId + 1
                  /\ sales' = (nextSaleId :> [total_amount |-> 0]) @@ sales
          /\ UNCHANGED <<products, movements, saleItems, purchases, purchaseItems,
                         nextProductId, nextMovementId, nextPurchaseId, fkEnforced,
                         workers, auth>>

\* the item check, the Sale header and db.flush(), which draws the sale id
CreateSaleCall(r) ==
    /\ CanStart(r)
    /\ \E items \in ItemLists(SaleLines) :
          /\ calls' = calls + 1
          /\ LET s == Started("create_sale", "line", [items |-> items]) IN
             IF Len(items) = 0
             THEN /\ req' = [req EXCEPT ![r] = Finished(s, "400_empty")]
                  /\ UNCHANGED nextSaleId
             ELSE /\ req' = [req EXCEPT ![r] = [s EXCEPT !.hid = nextSaleId, !.i = 1]]
                  /\ nextSaleId' = nextSaleId + 1
          /\ UNCHANGED <<db, nextProductId, nextMovementId, nextPurchaseId, fkEnforced, workers, auth>>

\* the session after one pass of the loop body over a line that is accepted
SaleLineApplied(s, line) ==
    LET pid == line.product_id
        product == View(s, pid)
        subtotal == Subtotal(product.price, line.quantity)
        l == Loaded(s, pid)
    IN  [l EXCEPT
            !.mem = (pid :> [product EXCEPT !.quantity = @ - line.quantity]) @@ @,
            !.items = Append(@, LineItem(s.hid, pid, line.quantity,
                                         product.price, subtotal)),
            !.movs = Append(@, StockMovement(pid, 0 - line.quantity, "venta",
                                             SaleReference(s.hid), <<>>)),
            !.total = @ + subtotal,
            !.i = @ + 1,
            !.pc = IF s.i = Len(s.args.items) THEN "commit" ELSE "line"]

\* mutant: db.commit() inside the loop: every accepted line is committed at once
CreateSaleLineCommitting(r) ==
    LET s == req[r]
        line == s.args.items[s.i]
        a == SaleLineApplied(s, line)
    IN
    /\ s.kind = "create_sale" /\ s.pc = "line"
    /\ IF ~Exists(line.product_id)
       THEN /\ req' = [req EXCEPT ![r] = Finished(s, "404")]
            /\ UNCHANGED <<products, movements, nextMovementId, saleItems>>
       ELSE IF StockShort(View(s, line.product_id).quantity, line.quantity)
            THEN /\ req' = [req EXCEPT ![r] = Finished(s, "400_stock")]
                 /\ UNCHANGED <<products, movements, nextMovementId, saleItems>>
            ELSE /\ CommitLedger(a)
                 /\ saleItems' = saleItems \o a.items
                 /\ req' = [req EXCEPT ![r] =
                               [a EXCEPT !.loaded = a.mem, !.movs = <<>>, !.items = <<>>]]
    /\ UNCHANGED <<sales, purchases, purchaseItems, nextProductId, nextSaleId,
                   nextPurchaseId, fkEnforced, workers, auth, calls>>

\* one pass of "for item_data in sale_data.items"
CreateSaleLine(r) ==
    LET s == req[r]
        line == s.args.items[s.i]
    IN
    /\ s.kind = "create_sale" /\ s.pc = "line"
    /\ req' = [req EXCEPT ![r] =
          IF ~Exists(line.product_id) THEN Finished(s, "404")
          ELSE IF StockShort(View(s, line.product_id).quantity, line.quantity)
               THEN Finished(s, "400_stock")
               ELSE SaleLineApplied(s, line)]
    /\ UNCHANGED <<db, ids, fkEnforced, workers, auth, calls>>

\* db_sale.total_amount = total_amount; db.commit()
CreateSaleCommit(r) ==
    LET s == req[r] IN
    /\ s.kind = "create_sale" /\ s.pc = "commit"
    /\ \E fk \in FkObserved(Dangling(s)) :
          /\ fkEnforced' = fk
          /\ IF CommitFails(s, fk)
             THEN /\ req' = [req EXCEPT ![r] = Finished(s, "500")]
                  /\ UNCHANGED <<products, movements, nextMovementId, sales, saleItems>>
             ELSE /\ CommitLedger(s)
                  /\ sales' = (s.hid :> [total_amount |-> s.total]) @@ sales
                  /\ saleItems' = saleItems \o s.items
                  /\ req' = [req EXCEPT ![r] = Finished(s, "ok")]
    /\ UNCHANGED <<purchases, purchaseItems, nextProductId, nextSaleId, nextPurchaseId,
                   workers, auth, calls>>

----------------------------------------------------------------------------
(* create_purchase *)

\* mutant: no check of the item list: the header of an empty purchase is
\* flushed and, the loop having nothing to do, committed
CreatePurchaseCallNoEmptyCheck(r) ==
    /\ CanStart(r)
    /\ \E items \in ItemLists(PurchaseLines) :
          /\ calls' = calls + 1
          /\ LET s == Started("create_purchase", "line", [items |-> items]) IN
             /\ req' = [req EXCEPT ![r] =
                           [s EXCEPT !.hid = nextPurchaseId, !.i = 1,
                                     !.pc = IF Len(items) = 0 THEN "commit" ELSE "line"]]
             /\ nextPurchaseId' = nextPurchaseId + 1
          /\ UNCHANGED <<db, nextProductId, nextMovementId, nextSaleId, fkEnforced, workers, auth>>

\* the item check, the Purchase header and db.flush(), which draws the purchase id
CreatePurchaseCall(r) ==
    /\ CanStart(r)
    /\ \E items \in ItemLists(PurchaseLines) :
          /\ calls' = calls + 1
          /\ LET s == Started("create_purchase", "line", [items |-> items]) IN
             IF Len(items) = 0
             THEN /\ req' = [req EXCEPT ![r] = Finished(s, "400_empty")]
                  /\ UNCHANGED nextPurchaseId
             ELSE /\ req' = [req EXCEPT ![r] = [s EXCEPT !.hid = nextPurchaseId, !.i = 1]]
                  /\ nextPurchaseId' = nextPurchaseId + 1
          /\ UNCHANGED <<db, nextProductId, nextMovementId, nextSaleId, fkEnforced, workers, auth>>

\* mutant: the line is priced at the product's list price
PurchaseLineAtListPrice(s, line) ==
    LET pid == line.product_id
        product == View(s, pid)
        subtotal == Subtotal(product.price, line.quantity)
        l == Loaded(s, pid)
    IN  [l EXCEPT
            !.mem = (pid :> [product EXCEPT !.quantity = @ + line.quantity]) @@ @,
            !.items = Append(@, LineItem(s.hid, pid, line.quantity,
                                         product.price, subtotal)),
            !.movs = Append(@, StockMovement(pid, line.quantity, "compra",
                                             PurchaseReference(s.hid), <<>>)),
            !.total = @ + subtotal,
            !.i = @ + 1,
            !.pc = IF s.i = Len(s.args.items) THEN "commit" ELSE "line"]

\* the session after one pass of the loop body of create_purchase
PurchaseLineApplied(s, line) ==
    LET pid == line.product_id
        product == View(s, pid)
        subtotal == Subtotal(line.unit_price, line.quantity)
        l == Loaded(s, pid)
    IN  [l EXCEPT
            !.mem = (pid :> [product EXCEPT !.quantity = @ + line.quantity]) @@ @,
            !.items = Append(@, LineItem(s.hid, pid, line.quantity,
                                         line.unit_price, subtotal)),
            !.movs = Append(@, StockMovement(pid, line.quantity, "compra",
                                             PurchaseReference(s.hid), <<>>)),
            !.total = @ + subtotal,
            !.i = @ + 1,
            !.pc = IF s.i = Len(s.args.items) THEN "commit" ELSE "line"]

CreatePurchaseLine(r) ==
    LET s == req[r]
        line == s.args.items[s.i]
    IN
    /\ s.kind = "create_purchase" /\ s.pc = "line"
    /\ req' = [req EXCEPT ![r] =
          IF ~Exists(line.product_id) THEN Finished(s, "404")
          ELSE PurchaseLineApplied(s, line)]
    /\ UNCHANGED <<db, ids, fkEnforced, workers, auth, calls>>

CreatePurchaseCommit(r) ==
    LET s == req[r] IN
    /\ s.kind = "create_purchase" /\ s.pc = "commit"
    /\ \E fk \in FkObserved(Dangling(s)) :
          /\ fkEnforced' = fk
          /\ IF CommitFails(s, fk)
             THEN /\ req' = [req EXCEPT ![r] = Finished(s, "500")]
                  /\ UNCHANGED <<products, movements, nextMovementId, purchases,
                                 purchaseItems>>
             ELSE /\ CommitLedger(s)
                  /\ purchases' = (s.hid :> [total_amount |-> s.total]) @@ purchases
                  /\ purchaseItems' = purchaseItems \o s.items
                  /\ req' = [req EXCEPT ![r] = Finished(s, "ok")]
    /\ UNCHANGED <<sales, saleItems, nextProductId, nextSaleId, nextPurchaseId,
                   workers, auth, calls>>

----------------------------------------------------------------------------
(* get_stock_movements *)

\* "if product_id:" / "if movement_type:": the filter applies to a value that
\* is given and truthy
ProductFiltered(product_id) == product_id # <<>> /\ product_id[1] # 0
TypeFiltered(movement_type) == movement_type # <<>> /\ movement_type[1] # ""

\* the rows the query selects
Matching(product_id, movement_type) ==
    {movements[k] : k \in {j \in 1..Len(movements) :
        /\ ProductFiltered(product_id) => movements[j].product_id = product_id[1]
        /\ TypeFiltered(movement_type) =>
              movements[j].movement_type = movement_type[1]}}

\* ORDER BY movement_date DESC: the orders the store may return the rows in;
\* rows of the same movement_date come in any order, each time the query runs
RECURSIVE Orders(_)
Orders(rows) ==
    IF rows = {} THEN {<<>>}
    ELSE LET Latest == {m \in rows : \A o \in rows : m.movement_date >= o.movement_date}
         IN  UNION {{<<m>> \o rest : rest \in Orders(rows \ {m})} : m \in Latest}

\* .offset(skip).limit(limit)
Page(ordered, skip, limit) ==
    SubSeq(ordered, skip + 1, IF skip + limit < Len(ordered) THEN skip + limit
                              ELSE Len(ordered))

\* an idle server process takes the request (reads are not counted in calls)
Available(r) ==
    /\ Cardinality({s \in Requests : InFlight(s)}) < workers
    /\ Free(r)
    /\ \A s \in Requests : s < r => InFlight(s)

\* the handler is one query; its rows are the response
GetStockMovements(r) ==
    /\ Available(r)
    /\ \E product_id \in ProductFilters, movement_type \in TypeFilters,
          skip \in Skips, limit \in Limits :
          \E ordered \in Orders(Matching(product_id, movement_type)) :
             req' = [req EXCEPT ![r] =
                        [Started("get_stock_movements", "done",
                                 [product_id |-> product_id,
                                  movement_type |-> movement_type,
                                  skip |-> skip, limit |-> limit])
                         EXCEPT !.outcome = "ok",
                                !.response = Page(ordered, skip, limit)]]
    /\ UNCHANGED <<db, ids, fkEnforced, workers, auth, calls>>

----------------------------------------------------------------------------
(* The other read handlers.  Each is one step: its queries and the response. *)
(* A query without ORDER BY returns its rows in insertion (id) order here.   *)
(* created_at of a header is the server default now() of its INSERT: the     *)
(* headers are dated in the order of their ids, and the id stands for it.    *)

Responded(kind, args, outcome, response) ==
    [Started(kind, "done", args) EXCEPT !.outcome = outcome, !.response = response]

RECURSIVE Ascending(_)
Ascending(S) ==
    IF S = {} THEN <<>>
    ELSE LET least == CHOOSE m \in S : \A o \in S : m <= o
         IN  <<least>> \o Ascending(S \ {least})

RECURSIVE Descending(_)
Descending(S) ==
    IF S = {} THEN <<>>
    ELSE LET most == CHOOSE m \in S : \A o \in S : m >= o
         IN  <<most>> \o Descending(S \ {most})

\* "if start_date:" / "if end_date:": a datetime that is given is truthy
InRange(date, start_date, end_date) ==
    /\ start_date # <<>> => date >= start_date[1]
    /\ end_date # <<>> => date <= end_date[1]

ProductResponse(p) == [id |-> p] @@ products[p]

SaleResponse(h) == [id |-> h, items |-> OfHeaderRows(saleItems, h)] @@ sales[h]

PurchaseResponse(h) ==
    [id |-> h, items |-> OfHeaderRows(purchaseItems, h)] @@ purchases[h]

\* Product.name.ilike(f"%{search}%"); the names are single letters
Found(search) ==
    {p \in DOMAIN products : search # <<>> => products[p].name = search[1]}

GetProducts(r) ==
    /\ Available(r)
    /\ \E skip \in {0}, limit \in Limits, search \in Searches :
          req' = [req EXCEPT ![r] =
                     Responded("get_products",
                               [skip |-> skip, limit |-> limit, search |-> search],
                               "ok",
                               [k \in DOMAIN Page(Ascending(Found(search)), skip, limit)
                                   |-> ProductResponse(
                                           Page(Ascending(Found(search)), skip, limit)[k])])]
    /\ UNCHANGED <<db, ids, fkEnforced, workers, auth, calls>>

GetProduct(r) ==
    /\ Available(r)
    /\ \E pid \in ProductIds :
          req' = [req EXCEPT ![r] =
                     IF ~Exists(pid)
                     THEN Responded("get_product", [product_id |-> pid], "404", <<>>)
                     ELSE Responded("get_product", [product_id |-> pid], "ok",
                                    <<ProductResponse(pid)>>)]
    /\ UNCHANGED <<db, ids, fkEnforced, workers, auth, calls>>

\* the headers of a table created in the range, latest first
Listed(headers, start_date, end_date) ==
    Descending({h \in DOMAIN headers : InRange(h, start_date, end_date)})

GetSales(r) ==
    /\ Available(r)
    /\ \E skip \in {0}, limit \in Limits, start_date \in DateBounds,
          end_date \in DateBounds :
          req' = [req EXCEPT ![r] =
                     Responded("get_sales",
                               [skip |-> skip, limit |-> limit,
                                start_date |-> start_date, end_date |-> end_date],
                               "ok",
                               LET page == Page(Listed(sales, start_date, end_date),
                                                skip, limit)
                               IN  [k \in DOMAIN page |-> SaleResponse(page[k])])]
    /\ UNCHANGED <<db, ids, fkEnforced, workers, auth, calls>>

\* mutant: the total of the sale is recomputed from its items and stored
GetSaleRepairingTotal(r) ==
    /\ Available(r)
    /\ \E sale_id \in HeaderIds :
          /\ req' = [req EXCEPT ![r] =
                     IF sale_id \notin DOMAIN sales
                     THEN Responded("get_sale", [sale_id |-> sale_id], "404", <<>>)
                     ELSE Responded("get_sale", [sale_id |-> sale_id], "ok",
                                    <<SaleResponse(sale_id)>>)]
          /\ sales' = [h \in DOMAIN sales |->
                          IF h = sale_id
                          THEN [total_amount |->
                                   SumField(OfHeaderRows(saleItems, h), "subtotal")]
                          ELSE sales[h]]
    /\ UNCHANGED <<products, movements, saleItems, purchases, purchaseItems, ids,
                   fkEnforced, workers, auth, calls>>

GetSale(r) ==
    /\ Available(r)
    /\ \E sale_id \in HeaderIds :
          req' = [req EXCEPT ![r] =
                     IF sale_id \notin DOMAIN sales
                     THEN Responded("get_sale", [sale_id |-> sale_id], "404", <<>>)
                     ELSE Responded("get_sale", [sale_id |-> sale_id], "ok",
                                    <<SaleResponse(sale_id)>>)]
    /\ UNCHANGED <<db, ids, fkEnforced, workers, auth, calls>>

GetPurchases(r) ==
    /\ Available(r)
    /\ \E skip \in {0}, limit \in Limits, start_date \in DateBounds,
          end_date \in DateBounds :
          req' = [req EXCEPT ![r] =
                     Responded("get_purchases",
                               [skip |-> skip, limit |-> limit,
                                start_date |-> start_date, end_date |-> end_date],
                               "ok",
                               LET page == Page(Listed(purchases, start_date, end_date),
                                                skip, limit)
                               IN  [k \in DOMAIN page |-> PurchaseResponse(page[k])])]
    /\ UNCHANGED <<db, ids, fkEnforced, workers, auth, calls>>

GetPurchase(r) ==
    /\ Available(r)
    /\ \E purchase_id \in HeaderIds :
          req' = [req EXCEPT ![r] =
                     IF purchase_id \notin DOMAIN purchases
                     THEN Responded("get_purchase", [purchase_id |-> purchase_id],
                                    "404", <<>>)
                     ELSE Responded("get_purchase", [purchase_id |-> purchase_id],
                                    "ok", <<PurchaseResponse(purchase_id)>>)]
    /\ UNCHANGED <<db, ids, fkEnforced, workers, auth, calls>>

RECURSIVE StockValue(_)
StockValue(ps) ==
    IF ps = {} THEN 0
    ELSE LET p == CHOOSE x \in ps : TRUE
         IN  products[p].price * products[p].quantity + StockValue(ps \ {p})

\* the three queries of the summary
Summary(low_stock_threshold) ==
    [total_products |-> Cardinality(DOMAIN products),
     total_stock_value |-> StockValue(DOMAIN products),
     low_stock_items |->
        LET low == Ascending({p \in DOMAIN products :
                                products[p].quantity <= low_stock_threshold})
        IN  [k \in DOMAIN low |-> ProductResponse(low[k])]]

\* routes/reports.py
InventorySummary(r) ==
    /\ Available(r)
    /\ \E low_stock_threshold \in Thresholds :
          req' = [req EXCEPT ![r] =
                     Responded("inventory_summary",
                               [low_stock_threshold |-> low_stock_threshold], "ok",
                               <<Summary(low_stock_threshold)>>)]
    /\ UNCHANGED <<db, ids, fkEnforced, workers, auth, calls>>

\* routes/products.py: the count is queried, then db.func is looked up on the
\* Session, which has no such attribute: AttributeError, answered 500
GetInventorySummary(r) ==
    /\ Available(r)
    /\ \E low_stock_threshold \in Thresholds :
          req' = [req EXCEPT ![r] =
                     Responded("get_inventory_summary",
                               [low_stock_threshold |-> low_stock_threshold], "500",
                               <<>>)]
    /\ UNCHANGED <<db, ids, fkEnforced, workers, auth, calls>>

SalesReport(r) ==
    /\ Available(r)
    /\ \E start_date \in DateBounds, end_date \in DateBounds :
          req' = [req EXCEPT ![r] =
                     Responded("sales_report",
                               [start_date |-> start_date, end_date |-> end_date], "ok",
                               LET hs == Ascending({h \in DOMAIN sales :
                                            InRange(h, start_date, end_date)})
                               IN  [k \in DOMAIN hs |->
                                      [id |-> hs[k], total |-> sales[hs[k]].total_amount,
                                       date |-> hs[k],
                                       items |-> Len(OfHeaderRows(saleItems, hs[k]))]])]
    /\ UNCHANGED <<db, ids, fkEnforced, workers, auth, calls>>

StockMovementsReport(r) ==
    /\ Available(r)
    /\ \E product_id \in ProductFilters, start_date \in DateBounds,
          end_date \in DateBounds :
          req' = [req EXCEPT ![r] =
                     Responded("stock_movements_report",
                               [product_id |-> product_id, start_date |-> start_date,
                                end_date |-> end_date], "ok",
                               LET Selected(m) ==
                                       /\ ProductFiltered(product_id) =>
                                              m.product_id = product_id[1]
                                       /\ InRange(m.movement_date, start_date, end_date)
                                   rows == SelectSeq(movements, Selected)
                               IN  [k \in DOMAIN rows |->
                                      [id |-> rows[k].id,
                                       product_id |-> rows[k].product_id,
                                       quantity |-> rows[k].quantity_change,
                                       type |-> rows[k].movement_type,
                                       date |-> rows[k].movement_date]])]
    /\ UNCHANGED <<db, ids, fkEnforced, workers, auth, calls>>

----------------------------------------------------------------------------
(* A request that dies between two of its steps (worker killed, connection *)
(* to the store lost): the open transaction is rolled back, what was       *)
(* committed stays.                                                        *)

Abort(r) ==
    /\ InFlight(r)
    /\ req' = [req EXCEPT ![r] = Finished(req[r], "aborted")]
    /\ UNCHANGED <<db, ids, fkEnforced, workers, auth, calls>>

----------------------------------------------------------------------------
(* The store after the products were entered with create_product, one call *)
(* at a time: every product in stock has its 'inventario_inicial' row.     *)

SeedProducts ==
    {(1 :> Product("a", 1, q)) : q \in 0..MaxQty}
    \cup {(1 :> Product("a", 1, MaxQty)) @@ (2 :> Product("b", 2, 1))}

SeedMovements(ps) ==
    LET InStock == {p \in DOMAIN ps : ps[p].quantity > 0}
        Row(p) == StockMovement(p, ps[p].quantity, "inventario_inicial", <<>>,
                                InitialNote)
        first == IF 1 \in InStock THEN Numbered(<<Row(1)>>, 1) ELSE <<>>
    IN  IF 2 \in InStock
        THEN first \o Numbered(<<Row(2)>>, Len(first) + 1)
        ELSE first

InitStore ==
    /\ products \in SeedProducts
    /\ movements = SeedMovements(products)
    /\ nextProductId = Cardinality(DOMAIN products) + 1
    /\ nextMovementId = Len(movements) + 1
    /\ sales = <<>> /\ saleItems = <<>>
    /\ purchases = <<>> /\ purchaseItems = <<>>
    /\ nextSaleId = 1 /\ nextPurchaseId = 1
    /\ fkEnforced = "unknown"
    /\ req = [r \in Requests |-> IdleReq]
    /\ calls = 0

\* create_all on an empty database, UserService(): no user, no token
InitAccounts ==
    /\ users = <<>> /\ nextUserId = 1
    /\ verification_tokens = <<>> /\ reset_tokens = <<>> /\ nextToken = 1
    /\ now = 0
    /\ bearer = <<>> /\ issued = {}
    /\ reply = [op |-> "none", args |-> <<>>, status |-> "none", message |-> "",
                body |-> <<>>]
    /\ authCalls = 0

Init == InitStore /\ InitAccounts /\ workers = MaxReq

\* uvicorn.run("main:app", ...): a single server process
SeqInit == InitStore /\ InitAccounts /\ workers = 1

Next ==
    \E r \in Requests :
        \/ CreateProductCall(r)
        \/ CreateProductInsert(r)
        \/ CreateProductMovement(r)
        \/ UpdateProductCall(r)
        \/ UpdateProductCommit(r)
        \/ DeleteProductCall(r)
        \/ DeleteProductCommit(r)
        \/ CreateStockMovementCall(r)
        \/ CreateStockMovementCommit(r)
        \/ CreateSaleCall(r)
        \/ CreateSaleLine(r)
        \/ CreateSaleCommit(r)
        \/ CreatePurchaseCall(r)
        \/ CreatePurchaseLine(r)
        \/ CreatePurchaseCommit(r)
        \/ Abort(r)

Spec == Init /\ [][Next]_vars

SeqSpec == SeqInit /\ [][Next]_vars

\* the single server process, the read handlers included
QueryNext ==
    \/ Next
    \/ \E r \in Requests :
          \/ GetStockMovements(r)
          \/ GetProducts(r)
          \/ GetProduct(r)
          \/ GetSales(r)
          \/ GetSale(r)
          \/ GetPurchases(r)
          \/ GetPurchase(r)
          \/ InventorySummary(r)
          \/ GetInventorySummary(r)
          \/ SalesReport(r)
          \/ StockMovementsReport(r)

QuerySpec == SeqInit /\ [][QueryNext]_vars

----------------------------------------------------------------------------
(* Accounts: routes/auth.py over services/user_service.py.  uvicorn runs    *)
(* one process, so there is one UserService and its two token dictionaries  *)
(* are shared by all requests; a handler runs to its response before the    *)
(* next request is taken.  The product handlers above are the handlers as   *)
(* run for a caller their dependency admitted; here the dependency runs.    *)

MaxAuthCalls == 5  \* requests and clock advances in one behaviour of AuthSpec

Usernames == {"u", "v"}
Emails == {"x", "y"}
Passwords == {"p"}                    \* password at registration
NewPasswords == {"q"}                 \* password of a reset or a change
Roles == {"admin", "cashier"}
UserIds == {1, 2}                     \* ids callers name
RoleUpdates == {<<>>, <<"cashier">>}  \* UserUpdate.role
ActiveUpdates == {<<>>, <<TRUE>>, <<FALSE>>}   \* UserUpdate.is_active

\* time in half hours
AccessLife == 1                       \* ACCESS_TOKEN_EXPIRE_MINUTES = 30
ResetLife == 2                        \* timedelta(hours=1)
VerifyLife == 48                      \* timedelta(hours=24)
Jumps == {2, 49}                      \* the time that passes between requests

inventory == <<db, ids, fkEnforced, workers, req, calls>>

\* get_password_hash / verify_password: the hash is not the password, and a
\* password verifies against its own hash only
Hash(password) == <<"bcrypt", password>>
VerifyPassword(plain_password, hashed_password) == hashed_password = Hash(plain_password)

GetUserByUsername(username) == {u \in DOMAIN users : users[u].username = username}
GetUserByEmail(email) == {u \in DOMAIN users : users[u].email = email}

NoReply == [op |-> "none", args |-> <<>>, status |-> "none", message |-> "",
            body |-> <<>>]

Said(op, args, status, message) ==
    [op |-> op, args |-> args, status |-> status, message |-> message, body |-> <<>>]

\* del d[token] / d.pop(token)
Without(d, token) == [t \in DOMAIN d \ {token} |-> d[t]]

\* the process takes an account request when no other request is in hand
Serving ==
    /\ authCalls + calls < MaxAuthCalls
    /\ \A r \in Requests : Free(r)

\* a token string a client can send: one that was issued, or some other (0)
Sendable == 0..(nextToken - 1)

\* create_user, as called by register_user
RegisterUser ==
    /\ Serving
    /\ \E username \in Usernames, email \in Emails, password \in Passwords,
          role \in Roles :
          LET args == [username |-> username, email |-> email, role |-> role]
          IN  IF GetUserByUsername(username) # {}
              THEN /\ reply' = Said("register_user", args, "400", "Usuario ya existe")
                   /\ UNCHANGED <<users, nextUserId, verification_tokens, nextToken>>
              ELSE IF GetUserByEmail(email) # {}
              THEN /\ reply' = Said("register_user", args, "400", "Email ya registrado")
                   /\ UNCHANGED <<users, nextUserId, verification_tokens, nextToken>>
              ELSE /\ users' = users @@
                          (nextUserId :> [username |-> username, email |-> email,
                                          password |-> Hash(password), role |-> role,
                                          is_active |-> FALSE])
                   /\ nextUserId' = nextUserId + 1
                   /\ verification_tokens' = verification_tokens @@
                          (nextToken :> [user_id |-> nextUserId,
                                         expires_at |-> now + VerifyLife])
                   /\ nextToken' = nextToken + 1
                   /\ reply' = Said("register_user", args, "201", "")
    /\ authCalls' = authCalls + 1
    /\ UNCHANGED <<reset_tokens, now, bearer, issued, inventory>>

\* mutant: the account state is not looked at
AuthenticateUserInactiveToo(username, password) ==
    {u \in GetUserByUsername(username) : VerifyPassword(password, users[u].password)}

\* authenticate_user: the users it returns (none, or the one of that name)
AuthenticateUser(username, password) ==
    {u \in GetUserByUsername(username) :
        VerifyPassword(password, users[u].password) /\ users[u].is_active}

\* login: authenticate_user, create_tokens; the client keeps the access token
Login ==
    /\ Serving
    /\ \E username \in Usernames, password \in Passwords \cup NewPasswords :
          LET args == [username |-> username, password |-> password]
              found == AuthenticateUser(username, password)
          IN  IF found = {}
              THEN /\ reply' = Said("login", args, "401", "Credenciales incorrectas")
                   /\ UNCHANGED <<bearer, issued>>
              ELSE LET u == CHOOSE x \in found : TRUE
                       token == <<[sub |-> users[u].username, user_id |-> u,
                                   role |-> users[u].role, exp |-> now + AccessLife]>>
                   IN  /\ bearer' = token
                       /\ issued' = issued \cup {token}
                       /\ reply' = Said("login", args, "ok", "")
    /\ authCalls' = authCalls + 1
    /\ UNCHANGED <<users, nextUserId, verification_tokens, reset_tokens, nextToken,
                   now, inventory>>

\* mutant: the expiry of the token is not looked at
VerifyAccountIgnoringExpiry ==
    /\ Serving
    /\ \E token \in Sendable :
          LET args == [token |-> token]
          IN  IF token \notin DOMAIN verification_tokens
              THEN /\ reply' = Said("verify_account", args, "400", "Token invalido")
                   /\ UNCHANGED <<users, verification_tokens>>
              ELSE LET token_data == verification_tokens[token]
                   IN  IF token_data.user_id \notin DOMAIN users
                       THEN /\ reply' = Said("verify_account", args, "400",
                                             "Usuario no existe")
                            /\ UNCHANGED <<users, verification_tokens>>
                       ELSE /\ users' = [users EXCEPT
                                            ![token_data.user_id].is_active = TRUE]
                            /\ verification_tokens' = Without(verification_tokens, token)
                            /\ reply' = Said("verify_account", args, "ok",
                                             "Cuenta verificada")
    /\ authCalls' = authCalls + 1
    /\ UNCHANGED <<nextUserId, reset_tokens, nextToken, now, bearer, issued, inventory>>

\* verify_account, as called by verify_email
VerifyAccount ==
    /\ Serving
    /\ \E token \in Sendable :
          LET args == [token |-> token]
          IN  IF token \notin DOMAIN verification_tokens
              THEN /\ reply' = Said("verify_account", args, "400", "Token invalido")
                   /\ UNCHANGED <<users, verification_tokens>>
              ELSE LET token_data == verification_tokens[token]
                   IN  IF now > token_data.expires_at
                       THEN /\ verification_tokens' = Without(verification_tokens, token)
                            /\ reply' = Said("verify_account", args, "400",
                                             "Token expirado")
                            /\ UNCHANGED users
                       ELSE IF token_data.user_id \notin DOMAIN users
                       THEN /\ reply' = Said("verify_account", args, "400",
                                             "Usuario no existe")
                            /\ UNCHANGED <<users, verification_tokens>>
                       ELSE /\ users' = [users EXCEPT
                                            ![token_data.user_id].is_active = TRUE]
                            /\ verification_tokens' = Without(verification_tokens, token)
                            /\ reply' = Said("verify_account", args, "ok",
                                             "Cuenta verificada")
    /\ authCalls' = authCalls + 1
    /\ UNCHANGED <<nextUserId, reset_tokens, nextToken, now, bearer, issued, inventory>>

\* request_password_reset: the dictionary it leaves and the result it returns;
\* send_password_reset_email catches what it raises and returns a bool
RequestPasswordReset(email) ==
    LET found == GetUserByEmail(email)
    IN  IF found = {}
        THEN [reset_tokens |-> reset_tokens, issued |-> FALSE,
              result |-> [success |-> TRUE, message |-> "Instrucciones enviadas"]]
        ELSE LET user == CHOOSE u \in found : TRUE
             IN  [reset_tokens |-> reset_tokens @@
                                      (nextToken :> [user_id |-> user,
                                                     expires_at |-> now + ResetLife]),
                  issued |-> TRUE,
                  result |-> [success |-> TRUE, message |-> "Correo enviado"]]

\* mutant: the route answers with the message of the service
ForgotPasswordEchoingResult ==
    /\ Serving
    /\ \E email \in Emails :
          LET asked == RequestPasswordReset(email)
          IN  /\ reset_tokens' = asked.reset_tokens
              /\ nextToken' = IF asked.issued THEN nextToken + 1 ELSE nextToken
              /\ reply' = Said("forgot_password", [email |-> email], "ok",
                               asked.result.message)
    /\ authCalls' = authCalls + 1
    /\ UNCHANGED <<users, nextUserId, verification_tokens, now, bearer, issued, inventory>>

\* forgot_password: the result of the service is dropped
ForgotPassword ==
    /\ Serving
    /\ \E email \in Emails :
          LET asked == RequestPasswordReset(email)
          IN  /\ reset_tokens' = asked.reset_tokens
              /\ nextToken' = IF asked.issued THEN nextToken + 1 ELSE nextToken
              /\ reply' = Said("forgot_password", [email |-> email], "ok",
                               "Instrucciones enviadas si el correo existe")
    /\ authCalls' = authCalls + 1
    /\ UNCHANGED <<users, nextUserId, verification_tokens, now, bearer, issued, inventory>>

\* mutant: the token stays in the dictionary after the reset
ResetPasswordKeepingToken ==
    /\ Serving
    /\ \E token \in Sendable, new_password \in NewPasswords :
          LET args == [token |-> token, new_password |-> new_password]
          IN  IF token \notin DOMAIN reset_tokens
              THEN /\ reply' = Said("reset_password", args, "400",
                                    "Token invalido o expirado")
                   /\ UNCHANGED <<users, reset_tokens>>
              ELSE LET token_data == reset_tokens[token]
                   IN  IF now > token_data.expires_at
                       THEN /\ reset_tokens' = Without(reset_tokens, token)
                            /\ reply' = Said("reset_password", args, "400",
                                             "El token ha expirado")
                            /\ UNCHANGED users
                       ELSE IF token_data.user_id \notin DOMAIN users
                       THEN /\ reply' = Said("reset_password", args, "400",
                                             "Usuario no encontrado")
                            /\ UNCHANGED <<users, reset_tokens>>
                       ELSE /\ users' = [users EXCEPT ![token_data.user_id].password =
                                                          Hash(new_password)]
                            /\ UNCHANGED reset_tokens
                            /\ reply' = Said("reset_password", args, "ok",
                                             "Contrasena actualizada")
    /\ authCalls' = authCalls + 1
    /\ UNCHANGED <<nextUserId, verification_tokens, nextToken, now, bearer, issued, inventory>>

\* reset_password (the definition at the end of the class, which is the one
\* the class keeps), as called by the route
ResetPassword ==
    /\ Serving
    /\ \E token \in Sendable, new_password \in NewPasswords :
          LET args == [token |-> token, new_password |-> new_password]
          IN  IF token \notin DOMAIN reset_tokens
              THEN /\ reply' = Said("reset_password", args, "400",
                                    "Token invalido o expirado")
                   /\ UNCHANGED <<users, reset_tokens>>
              ELSE LET token_data == reset_tokens[token]
                   IN  IF now > token_data.expires_at
                       THEN /\ reset_tokens' = Without(reset_tokens, token)
                            /\ reply' = Said("reset_password", args, "400",
                                             "El token ha expirado")
                            /\ UNCHANGED users
                       ELSE IF token_data.user_id \notin DOMAIN users
                       THEN /\ reply' = Said("reset_password", args, "400",
                                             "Usuario no encontrado")
                            /\ UNCHANGED <<users, reset_tokens>>
                       ELSE /\ users' = [users EXCEPT ![token_data.user_id].password =
                                                          Hash(new_password)]
                            /\ reset_tokens' = Without(reset_tokens, token)
                            /\ reply' = Said("reset_password", args, "ok",
                                             "Contrasena actualizada")
    /\ authCalls' = authCalls + 1
    /\ UNCHANGED <<nextUserId, verification_tokens, nextToken, now, bearer, issued, inventory>>

\* get_current_user on the token the client sends: 401 when there is none,
\* when it has expired, when its user is gone or is inactive
GetCurrentUser ==
    IF bearer = <<>> \/ now > bearer[1].exp
    THEN [status |-> "401", user |-> 0]
    ELSE IF bearer[1].user_id \notin DOMAIN users
    THEN [status |-> "401", user |-> 0]
    ELSE IF ~users[bearer[1].user_id].is_active
    THEN [status |-> "401", user |-> 0]
    ELSE [status |-> "ok", user |-> bearer[1].user_id]

\* mutant: the role is not looked at
GetAdminUserAnyRole == GetCurrentUser

\* get_admin_user: the role is the one in the users table
GetAdminUser ==
    IF GetCurrentUser.status # "ok" THEN GetCurrentUser
    ELSE IF users[GetCurrentUser.user].role # "admin"
    THEN [status |-> "403", user |-> 0]
    ELSE GetCurrentUser

GetMe ==
    /\ Serving
    /\ reply' = [Said("get_me", <<>>, GetCurrentUser.status, "")
                    EXCEPT !.body = IF GetCurrentUser.status = "ok"
                                    THEN <<GetCurrentUser.user>> ELSE <<>>]
    /\ authCalls' = authCalls + 1
    /\ UNCHANGED <<users, nextUserId, verification_tokens, reset_tokens, nextToken,
                   now, bearer, issued, inventory>>

\* change_password of the caller
ChangePassword ==
    /\ Serving
    /\ \E current_password \in Passwords \cup NewPasswords,
          new_password \in NewPasswords :
          LET args == [current_password |-> current_password,
                       new_password |-> new_password]
              caller == GetCurrentUser
          IN  IF caller.status # "ok"
              THEN /\ reply' = Said("change_password", args, caller.status, "")
                   /\ UNCHANGED users
              ELSE IF ~VerifyPassword(current_password, users[caller.user].password)
              THEN /\ reply' = Said("change_password", args, "400",
                                    "Contrasena actual incorrecta")
                   /\ UNCHANGED users
              ELSE /\ users' = [users EXCEPT ![caller.user].password =
                                                 Hash(new_password)]
                   /\ reply' = Said("change_password", args, "ok", "Contrasena cambiada")
    /\ authCalls' = authCalls + 1
    /\ UNCHANGED <<nextUserId, verification_tokens, reset_tokens, nextToken, now,
                   bearer, issued, inventory>>

\* get_users: get_all_users with the default skip and limit
GetUsers ==
    /\ Serving
    /\ reply' = [Said("get_users", <<>>, GetAdminUser.status, "")
                    EXCEPT !.body = IF GetAdminUser.status = "ok"
                                    THEN Ascending(DOMAIN users) ELSE <<>>]
    /\ authCalls' = authCalls + 1
    /\ UNCHANGED <<users, nextUserId, verification_tokens, reset_tokens, nextToken,
                   now, bearer, issued, inventory>>

\* the route delete_user over the method delete_user
DeleteUser ==
    /\ Serving
    /\ \E user_id \in UserIds :
          LET args == [user_id |-> user_id]
              caller == GetAdminUser
          IN  IF caller.status # "ok"
              THEN /\ reply' = Said("delete_user", args, caller.status, "")
                   /\ UNCHANGED users
              ELSE IF user_id = caller.user
              THEN /\ reply' = Said("delete_user", args, "400",
                                    "No puedes eliminarte a ti mismo")
                   /\ UNCHANGED users
              ELSE IF user_id \notin DOMAIN users
              THEN /\ reply' = Said("delete_user", args, "404", "Usuario no encontrado")
                   /\ UNCHANGED users
              ELSE /\ users' = Without(users, user_id)
                   /\ reply' = Said("delete_user", args, "ok", "Usuario eliminado")
    /\ authCalls' = authCalls + 1
    /\ UNCHANGED <<nextUserId, verification_tokens, reset_tokens, nextToken, now,
                   bearer, issued, inventory>>

\* update_user (no route calls it), with a UserUpdate that carries a role
\* and an account state
UpdateUser ==
    /\ Serving
    /\ \E user_id \in UserIds, role \in RoleUpdates, is_active \in ActiveUpdates :
          LET args == [user_id |-> user_id, role |-> role, is_active |-> is_active]
          IN  IF user_id \notin DOMAIN users
              THEN /\ reply' = Said("update_user", args, "error", "Usuario no encontrado")
                   /\ UNCHANGED users
              ELSE /\ users' = [users EXCEPT
                          ![user_id].role = IF role # <<>> THEN role[1] ELSE @,
                          ![user_id].is_active =
                              IF is_active # <<>> THEN is_active[1] ELSE @]
                   /\ reply' = Said("update_user", args, "ok", "")
    /\ authCalls' = authCalls + 1
    /\ UNCHANGED <<nextUserId, verification_tokens, reset_tokens, nextToken, now,
                   bearer, issued, inventory>>

\* delete_product for a caller get_admin_user lets through
DeleteProductAdmitted(r) ==
    /\ authCalls + calls < MaxAuthCalls
    /\ GetAdminUser.status = "ok"
    /\ DeleteProductCall(r)

\* delete_product for a caller get_admin_user stops: the handler does not run
DeleteProductRefused(r) ==
    /\ authCalls + calls < MaxAuthCalls
    /\ GetAdminUser.status # "ok"
    /\ CanStart(r)
    /\ \E pid \in ProductIds :
          req' = [req EXCEPT ![r] =
                     Finished(Started("delete_product", "done", [product_id |-> pid]),
                              GetAdminUser.status)]
    /\ calls' = calls + 1
    /\ UNCHANGED <<db, ids, fkEnforced, workers, auth>>

\* the next request is another client's: it carries no token, or one that
\* login handed out
Present ==
    /\ \A r \in Requests : Free(r)
    /\ \E token \in {<<>>} \cup issued : token # bearer /\ bearer' = token
    /\ reply' = NoReply
    /\ UNCHANGED <<users, nextUserId, verification_tokens, reset_tokens, nextToken,
                   now, issued, authCalls, inventory>>

\* time passes
Pass ==
    /\ authCalls + calls < MaxAuthCalls
    /\ \E d \in Jumps : now' = now + d
    /\ reply' = NoReply
    /\ authCalls' = authCalls + 1
    /\ UNCHANGED <<users, nextUserId, verification_tokens, reset_tokens, nextToken,
                   bearer, issued, inventory>>

\* the process is started again: UserService() begins with empty dictionaries
Restart ==
    /\ Serving
    /\ verification_tokens' = <<>>
    /\ reset_tokens' = <<>>
    /\ reply' = NoReply
    /\ authCalls' = authCalls + 1
    /\ UNCHANGED <<users, nextUserId, nextToken, now, bearer, issued, inventory>>

AuthNext ==
    \/ RegisterUser
    \/ Login
    \/ VerifyAccount
    \/ ForgotPassword
    \/ ResetPassword
    \/ GetMe
    \/ ChangePassword
    \/ GetUsers
    \/ DeleteUser
    \/ UpdateUser
    \/ Present
    \/ Pass
    \/ Restart
    \/ \E r \in Requests :
          \/ DeleteProductAdmitted(r)
          \/ DeleteProductRefused(r)
          \/ DeleteProductCommit(r)

\* the accounts after register_user(u, x, admin), verify_email of its token
\* and register_user(v, y, cashier): an active admin and an account that
\* waits for its verification
SeedAccounts ==
    /\ users = (1 :> [username |-> "u", email |-> "x", password |-> Hash("p"),
                      role |-> "admin", is_active |-> TRUE])
               @@ (2 :> [username |-> "v", email |-> "y", password |-> Hash("p"),
                         role |-> "cashier", is_active |-> FALSE])
    /\ nextUserId = 3
    /\ verification_tokens = (2 :> [user_id |-> 2, expires_at |-> VerifyLife])
    /\ reset_tokens = <<>>
    /\ nextToken = 3
    /\ now = 0
    /\ bearer = <<>> /\ issued = {}
    /\ reply = NoReply
    /\ authCalls = 0

\* the single server process on a store of two products, with no account
\* yet or with the two accounts
AuthInit ==
    /\ InitStore
    /\ Cardinality(DOMAIN products) = 2
    /\ workers = 1
    /\ InitAccounts \/ SeedAccounts

AuthSpec == AuthInit /\ [][AuthNext]_vars

----------------------------------------------------------------------------
(* Properties *)

Ok(r) == req[r].pc = "done" /\ req[r].outcome = "ok"
Quiescent == \A r \in Requests : Free(r)
NoneAborted == \A r \in Requests : req[r].outcome # "aborted"

LedgerKinds == {"create_stock_movement", "create_sale", "create_purchase",
                "update_product"}

Balanced(p) == products[p].quantity = LedgerSum(movements, p)

OfProduct(rows, pid) == LET Is(row) == row.product_id = pid IN SelectSeq(rows, Is)
OfType(rows, type) == LET Is(row) == row.movement_type = type IN SelectSeq(rows, Is)
OfHeader(rows, hid) == LET Is(row) == row.header_id = hid IN SelectSeq(rows, Is)
OfReference(rows, ref) == LET Is(row) == row.reference = ref IN SelectSeq(rows, Is)

\* C1: in every reachable state every existing product's quantity equals the
\* sum of quantity_change over its movements (the initial stock counted
\* through its 'inventario_inicial' movement).
C1_LedgerInvariant == \A p \in DOMAIN products : Balanced(p)

\* C2: in every committed state every product has quantity >= 0.
C2_StockNeverNegative ==
    \A p \in DOMAIN products : products[p].quantity >= 0

\* C2 witness: two overlapping withdrawals both committed on the same product;
\* the ledger sums below zero and the quantity is still not negative.
C2_Witness ==
    /\ \A r \in Requests : Ok(r) /\ req[r].kind \in {"create_sale", "create_stock_movement"}
    /\ 1 \in DOMAIN products
    /\ LedgerSum(movements, 1) < 0
    /\ products[1].quantity = 0

OneUnitOfProduct1 == <<[product_id |-> 1, quantity |-> 1]>>

\* two create_sale requests for one unit of product 1, started on a store
\* where product 1 has quantity 1, overlapped and both ran to their response
TwoSalesOfLastUnit ==
    /\ calls = 2
    /\ \A r \in {1, 2} :
          /\ req[r].pc = "done" /\ req[r].kind = "create_sale"
          /\ req[r].args.items = OneUnitOfProduct1
          /\ req[r].outcome # "aborted"
    /\ Len(OfType(OfProduct(movements, 1), "inventario_inicial")) = 1
    /\ OfType(OfProduct(movements, 1), "inventario_inicial")[1].quantity_change = 1

\* C3: two concurrent create_sale requests for 1 unit of a product with
\* quantity 1 end with exactly one success and one insufficient-stock failure,
\* final quantity 0 and exactly one 'venta' movement for that product.
C3_ConcurrentSalesOneWins ==
    TwoSalesOfLastUnit =>
        /\ {req[1].outcome, req[2].outcome} = {"ok", "400_stock"}
        /\ products[1].quantity = 0
        /\ Len(OfType(OfProduct(movements, 1), "venta")) = 1

\* request r takes a step
Acts(r) == req'[r] # req[r]

IsSale(s) == s.kind = "create_sale"
IsPurchase(s) == s.kind = "create_purchase"

\* some row written for the header of sale or purchase request s is in the store
Persisted(s) ==
    IF IsSale(s)
    THEN \/ s.hid \in DOMAIN sales
         \/ OfHeader(saleItems, s.hid) # <<>>
         \/ OfReference(movements, SaleReference(s.hid)) # <<>>
    ELSE \/ s.hid \in DOMAIN purchases
         \/ OfHeader(purchaseItems, s.hid) # <<>>
         \/ OfReference(movements, PurchaseReference(s.hid)) # <<>>

\* C4: a create_sale or create_purchase request that fails on a line (product
\* missing or, for a sale, stock short) leaves no header, line item or movement
\* of its own and changes no row: neither the failing step nor the passes over
\* the lines before it write to the store.
C4_FailedLineRollsBack ==
    [][\A r \in Requests :
          /\ (Acts(r) /\ (IsSale(req[r]) \/ IsPurchase(req[r])) /\ req[r].pc = "line")
                => UNCHANGED <<db, nextMovementId>>
          /\ (Acts(r) /\ (IsSale(req'[r]) \/ IsPurchase(req'[r]))
                /\ req'[r].outcome \in {"404", "400_stock"})
                => (UNCHANGED db /\ ~Persisted(req[r])')
      ]_vars

\* C4 witness: a sale whose second line failed on stock after its first line
\* was processed.
C4_Witness ==
    \E r \in Requests :
        /\ req[r].pc = "done" /\ IsSale(req[r])
        /\ req[r].outcome = "400_stock" /\ req[r].i = 2
        /\ ~Persisted(req[r])

\* C5: create_stock_movement with quantity_change < 0 and
\* product.quantity + quantity_change < 0 fails with the insufficient-stock
\* error and leaves the product's quantity and the movement rows unchanged.
C5_InsufficientStockRejected ==
    [][\A r \in Requests :
          (/\ Acts(r) /\ Free(r)
           /\ req'[r].kind = "create_stock_movement"
           /\ req'[r].args.product_id \in DOMAIN products
           /\ req'[r].args.quantity_change < 0
           /\ products[req'[r].args.product_id].quantity
                 + req'[r].args.quantity_change < 0)
          => /\ req'[r].pc = "done"
             /\ req'[r].outcome = "400_stock"
             /\ UNCHANGED <<products, movements>>
      ]_vars

\* C5 witness: a withdrawal larger than the stock was rejected.
C5_Witness ==
    \E r \in Requests :
        /\ req[r].pc = "done" /\ req[r].kind = "create_stock_movement"
        /\ req[r].outcome = "400_stock"
        /\ req[r].args.quantity_change < 0

\* the rows appended to a table by a step
Appended(old, new) == SubSeq(new, Len(old) + 1, Len(new))
Extends(old, new) == Len(new) >= Len(old) /\ SubSeq(new, 1, Len(old)) = old

QuantityOfLines(lines, pid) == SumField(OfProduct(lines, pid), "quantity")

\* C6: a successful create_sale over lines l1..ln creates exactly one SaleItem
\* per line, with unit_price the product's current price and subtotal =
\* price * quantity, exactly one 'venta' movement per line with
\* quantity_change = -line.quantity, and lowers each product's quantity by the
\* sum of the quantities of the lines naming it.
C6_SaleApplied ==
    [][\A r \in Requests :
          (IsSale(req[r]) /\ req[r].pc = "commit" /\ req'[r].outcome = "ok")
          => LET lines == req[r].args.items
                 newItems == Appended(saleItems, saleItems')
                 newMovs == Appended(movements, movements')
             IN  /\ Extends(saleItems, saleItems') /\ Extends(movements, movements')
                 /\ Len(newItems) = Len(lines) /\ Len(newMovs) = Len(lines)
                 /\ \A k \in 1..Len(lines) :
                       LET pid == lines[k].product_id IN
                       /\ newItems[k].header_id = req[r].hid
                       /\ newItems[k].product_id = pid
                       /\ newItems[k].quantity = lines[k].quantity
                       /\ newItems[k].unit_price = products[pid].price
                       /\ newItems[k].subtotal = products[pid].price * lines[k].quantity
                       /\ newMovs[k].product_id = pid
                       /\ newMovs[k].movement_type = "venta"
                       /\ newMovs[k].quantity_change = 0 - lines[k].quantity
                 /\ DOMAIN products' = DOMAIN products
                 /\ \A p \in DOMAIN products :
                       products'[p].quantity =
                           products[p].quantity - QuantityOfLines(lines, p)
      ]_vars

\* C6 witness: a committed sale with two lines naming the same product.
C6_Witness ==
    \E r \in Requests :
        /\ Ok(r) /\ IsSale(req[r])
        /\ Len(req[r].args.items) = 2
        /\ req[r].args.items[1].product_id = req[r].args.items[2].product_id
        /\ Len(OfHeader(saleItems, req[r].hid)) = 2

\* C7: in every committed state every Sale and every Purchase header has
\* total_amount equal to the sum of the subtotals of the line items it owns.
C7_TotalsDerived ==
    /\ \A h \in DOMAIN sales :
          sales[h].total_amount = SumField(OfHeader(saleItems, h), "subtotal")
    /\ \A h \in DOMAIN purchases :
          purchases[h].total_amount = SumField(OfHeader(purchaseItems, h), "subtotal")

\* C8: when the ledger-affecting requests that overlapped have all committed,
\* every product's quantity is its starting quantity plus the quantity_change
\* of the movements they committed (the store starts balanced, so: the
\* product is balanced).
C8_NoLostUpdate ==
    (/\ calls = 2
     /\ \A r \in {1, 2} : Ok(r) /\ req[r].kind \in LedgerKinds)
    => \A p \in DOMAIN products : Balanced(p)

\* the quantity a product has, 0 while it does not exist
QuantityIn(ps, p) == IF p \in DOMAIN ps THEN ps[p].quantity ELSE 0

\* C9: every step that changes an existing product's quantity writes, in the
\* same commit, movement rows of that product summing to the change, and no
\* movement row is written without the quantity change.
C9_MovementWithQuantity ==
    [][\A p \in DOMAIN products' :
          QuantityIn(products', p) - QuantityIn(products, p)
              = LedgerSum(movements', p) - LedgerSum(movements, p)
      ]_vars

\* C10: partial application of a sale or purchase is never in the store: while
\* the request is in flight none of its rows is committed, and the only step
\* of it that writes commits the header, one line item and one movement per
\* line and the quantity of every product it touched, all at once.
C10_NoPartialApplication ==
    [][\A r \in Requests :
          (InFlight(r) /\ (IsSale(req[r]) \/ IsPurchase(req[r])))
          => /\ ~Persisted(req[r])
             /\ Acts(r) =>
                   \/ UNCHANGED db
                   \/ LET s == req[r]
                          n == Len(s.args.items)
                          headers == IF IsSale(s) THEN sales' ELSE purchases'
                          lineItems == IF IsSale(s) THEN saleItems' ELSE purchaseItems'
                          ref == IF IsSale(s) THEN SaleReference(s.hid)
                                 ELSE PurchaseReference(s.hid)
                      IN  /\ s.hid \in DOMAIN headers
                          /\ headers[s.hid].total_amount
                                = SumField(OfHeader(lineItems, s.hid), "subtotal")
                          /\ Len(OfHeader(lineItems, s.hid)) = n
                          /\ Len(OfReference(movements', ref)) = n
                          /\ \A p \in DOMAIN s.mem :
                                products'[p].quantity = s.mem[p].quantity
      ]_vars

\* C10 witness: a two-line sale over two products is committed.
C10_Witness ==
    \E r \in Requests :
        /\ Ok(r) /\ IsSale(req[r])
        /\ Len(req[r].args.items) = 2
        /\ req[r].args.items[1].product_id # req[r].args.items[2].product_id
        /\ req[r].hid \in DOMAIN sales
        /\ Len(OfHeader(saleItems, req[r].hid)) = 2

IsUpdate(s) == s.kind = "update_product"
SendsQuantity(s) == "quantity" \in DOMAIN s.args.body

\* the quantity update_product read for the product it changes
OldQuantity(s) == s.loaded[s.args.product_id].quantity

AdjustmentNote(old_quantity, new_quantity) ==
    <<"Ajuste manual", old_quantity, new_quantity>>

\* C11: update_product with a quantity equal to the product's current quantity,
\* or with no quantity field, writes no StockMovement row and leaves the
\* quantity unchanged; the same update_product(quantity = q) call repeated
\* after it succeeded adds no further movement.
C11_UpdateIdempotent ==
    [][\A r \in Requests :
          /\ (/\ IsUpdate(req[r]) /\ req[r].pc = "commit" /\ Acts(r)
              /\ (~SendsQuantity(req[r])
                    \/ req[r].args.body.quantity
                          = products[req[r].args.product_id].quantity))
             => /\ movements' = movements
                /\ DOMAIN products' = DOMAIN products
                /\ products'[req[r].args.product_id].quantity
                      = products[req[r].args.product_id].quantity
          /\ (/\ Ok(r) /\ IsUpdate(req[r]) /\ SendsQuantity(req[r])
              /\ IsUpdate(req'[r]) /\ req'[r].args = req[r].args)
             => /\ req'[r].pc = "commit"
                /\ req'[r].movs = <<>>
                /\ req'[r].mem[req[r].args.product_id].quantity
                      = products[req[r].args.product_id].quantity
      ]_vars

\* C11 witness: update_product(quantity = q) changed the quantity, wrote its
\* 'ajuste' row and was called again with the same q: the second call found
\* nothing to record.
C11_Witness ==
    /\ calls = 2 /\ IsUpdate(req[1]) /\ req[1].pc = "commit"
    /\ SendsQuantity(req[1]) /\ req[1].movs = <<>>
    /\ Len(OfType(movements, "ajuste")) = 1
    /\ LET m == OfType(movements, "ajuste")[1] IN
       /\ m.product_id = req[1].args.product_id
       /\ m.notes = AdjustmentNote(m.notes[2], req[1].args.body.quantity)
       /\ m.quantity_change # 0
       /\ products[m.product_id].quantity = req[1].args.body.quantity

\* C12: update_product with a new quantity q different from the old quantity o
\* (the one the handler read) sets the product's quantity to q and writes, in
\* the same commit, exactly one StockMovement, of type 'ajuste', with
\* quantity_change = q - o and a note recording o and q.
C12_AdjustmentRecorded ==
    [][\A r \in Requests :
          (/\ IsUpdate(req[r]) /\ req[r].pc = "commit" /\ req'[r].outcome = "ok"
           /\ SendsQuantity(req[r])
           /\ req[r].args.body.quantity # OldQuantity(req[r]))
          => LET pid == req[r].args.product_id
                 q == req[r].args.body.quantity
                 o == OldQuantity(req[r])
                 new == Appended(movements, movements')
             IN  /\ products'[pid].quantity = q
                 /\ Extends(movements, movements')
                 /\ Len(new) = 1
                 /\ new[1].product_id = pid
                 /\ new[1].movement_type = "ajuste"
                 /\ new[1].quantity_change = q - o
                 /\ new[1].notes = AdjustmentNote(o, q)
      ]_vars

\* C12 witness: an update that lowered a quantity is committed with its row.
C12_Witness ==
    \E r \in Requests :
        /\ Ok(r) /\ IsUpdate(req[r]) /\ SendsQuantity(req[r])
        /\ movements # <<>>
        /\ LET m == movements[Len(movements)] IN
           /\ m.movement_type = "ajuste"
           /\ m.product_id = req[r].args.product_id
           /\ m.quantity_change < 0
           /\ m.notes = AdjustmentNote(req[r].args.body.quantity - m.quantity_change,
                                       req[r].args.body.quantity)

IsCreate(s) == s.kind = "create_product"

\* C13: create_product with starting quantity q > 0 ends having written exactly
\* one StockMovement, for the new product, of type 'inventario_inicial' and
\* quantity_change = q, the only such row of the product; create_product with
\* q = 0, and no other step of create_product, writes a movement.
C13_InitialMovement ==
    [][\A r \in Requests :
          (Acts(r) /\ IsCreate(req'[r]))
          => IF req'[r].outcome = "ok" /\ req'[r].args.quantity > 0
             THEN LET new == Appended(movements, movements')
                      pid == req'[r].hid
                  IN  /\ Extends(movements, movements')
                      /\ Len(new) = 1
                      /\ new[1].product_id = pid
                      /\ new[1].movement_type = "inventario_inicial"
                      /\ new[1].quantity_change = req'[r].args.quantity
                      /\ Len(OfType(OfProduct(movements', pid),
                                    "inventario_inicial")) = 1
             ELSE movements' = movements
      ]_vars

\* C13 witness: a product created with stock has its 'inventario_inicial' row.
C13_Witness ==
    \E r \in Requests :
        /\ Ok(r) /\ IsCreate(req[r]) /\ req[r].args.quantity > 0
        /\ req[r].hid \in DOMAIN products
        /\ Len(OfProduct(movements, req[r].hid)) = 1
        /\ OfProduct(movements, req[r].hid)[1].movement_type = "inventario_inicial"
        /\ OfProduct(movements, req[r].hid)[1].quantity_change = req[r].args.quantity

\* C14: a successful create_purchase over lines l1..ln creates one PurchaseItem
\* per line with the caller's unit_price and subtotal = unit_price * quantity,
\* one 'compra' movement per line with quantity_change = +line.quantity, and
\* raises each product's quantity by the quantities purchased of it; no
\* create_purchase fails for lack of stock.
C14_PurchaseApplied ==
    [][\A r \in Requests :
          /\ (IsPurchase(req[r]) /\ req[r].pc = "commit" /\ req'[r].outcome = "ok")
             => LET lines == req[r].args.items
                    newItems == Appended(purchaseItems, purchaseItems')
                    newMovs == Appended(movements, movements')
                IN  /\ Extends(purchaseItems, purchaseItems')
                    /\ Extends(movements, movements')
                    /\ Len(newItems) = Len(lines) /\ Len(newMovs) = Len(lines)
                    /\ \A k \in 1..Len(lines) :
                          /\ newItems[k].header_id = req[r].hid
                          /\ newItems[k].product_id = lines[k].product_id
                          /\ newItems[k].quantity = lines[k].quantity
                          /\ newItems[k].unit_price = lines[k].unit_price
                          /\ newItems[k].subtotal
                                = lines[k].unit_price * lines[k].quantity
                          /\ newMovs[k].product_id = lines[k].product_id
                          /\ newMovs[k].movement_type = "compra"
                          /\ newMovs[k].quantity_change = lines[k].quantity
                    /\ DOMAIN products' = DOMAIN products
                    /\ \A p \in DOMAIN products :
                          products'[p].quantity =
                              products[p].quantity + QuantityOfLines(lines, p)
          /\ IsPurchase(req'[r]) => req'[r].outcome # "400_stock"
      ]_vars

\* C14 witness: a committed purchase with two lines naming the same product,
\* bought at a unit price that is not the product's list price.
C14_Witness ==
    \E r \in Requests :
        /\ Ok(r) /\ IsPurchase(req[r])
        /\ Len(req[r].args.items) = 2
        /\ req[r].args.items[1].product_id = req[r].args.items[2].product_id
        /\ Len(OfHeader(purchaseItems, req[r].hid)) = 2
        /\ OfHeader(purchaseItems, req[r].hid)[1].unit_price
              # products[req[r].args.items[1].product_id].price

\* C15: every StockMovement written by create_sale or create_purchase carries
\* the reference 'Venta #<id>' / 'Compra #<id>' of the header the same request
\* created, the header is committed with it, and no step removes a header: the
\* header exists in every committed state in which the movement exists.
C15_ReferenceNamesHeader ==
    [][/\ \A r \in Requests :
             (/\ (IsSale(req[r]) \/ IsPurchase(req[r]))
              /\ Acts(r) /\ movements' # movements)
             => LET new == Appended(movements, movements')
                    word == IF IsSale(req[r]) THEN "Venta #" ELSE "Compra #"
                    headers == IF IsSale(req[r]) THEN sales' ELSE purchases'
                IN  /\ Extends(movements, movements')
                    /\ \A k \in 1..Len(new) : new[k].reference = <<word, req[r].hid>>
                    /\ req[r].hid \in DOMAIN headers
                    /\ req[r].hid \notin
                          DOMAIN (IF IsSale(req[r]) THEN sales ELSE purchases)
       /\ DOMAIN sales \subseteq DOMAIN sales'
       /\ DOMAIN purchases \subseteq DOMAIN purchases'
      ]_vars

\* C15 witness: the second of two committed sales; its movement names sale 2.
C15_Witness ==
    \E r \in Requests :
        /\ Ok(r) /\ IsSale(req[r]) /\ req[r].hid = 2
        /\ DOMAIN sales = {1, 2}
        /\ \E k \in 1..Len(movements) :
              /\ movements[k].movement_type = "venta"
              /\ movements[k].reference = <<"Venta #", 2>>

\* C16: create_sale and create_purchase called with an empty item list fail
\* with the invalid-input error (HTTP 400) before any row is created: no
\* header (no id is drawn for one), line item or movement is written and no
\* product changes.
C16_EmptyItemsRejected ==
    [][\A r \in Requests :
          (/\ Free(r) /\ Acts(r)
           /\ (IsSale(req'[r]) \/ IsPurchase(req'[r]))
           /\ req'[r].args.items = <<>>)
          => /\ req'[r].pc = "done"
             /\ req'[r].outcome = "400_empty"
             /\ UNCHANGED <<db, ids>>
      ]_vars

\* C16 witness: a purchase without items was rejected and nothing is stored.
C16_Witness ==
    \E r \in Requests :
        /\ req[r].pc = "done" /\ IsPurchase(req[r])
        /\ req[r].args.items = <<>>
        /\ req[r].outcome = "400_empty"
        /\ purchases = <<>> /\ purchaseItems = <<>> /\ nextPurchaseId = 1

ByProductId == {"create_stock_movement", "update_product", "delete_product"}

\* C17: create_stock_movement, update_product and delete_product called with
\* the id of a product that does not exist fail with not-found (HTTP 404) and
\* leave all products, movements, sales and purchases unchanged.
C17_UnknownProductNotFound ==
    [][\A r \in Requests :
          (/\ Free(r) /\ Acts(r)
           /\ req'[r].kind \in ByProductId
           /\ req'[r].args.product_id \notin DOMAIN products)
          => /\ req'[r].pc = "done"
             /\ req'[r].outcome = "404"
             /\ UNCHANGED <<db, ids>>
      ]_vars

\* C17 witness: a delete of a product that does not exist was answered 404.
C17_Witness ==
    \E r \in Requests :
        /\ req[r].pc = "done" /\ req[r].kind = "delete_product"
        /\ req[r].outcome = "404"
        /\ req[r].args.product_id \notin DOMAIN products

IsDelete(s) == s.kind = "delete_product"

\* the products whose delete_product request commits the delete in this step
Deleted ==
    {req[r].args.product_id : r \in {x \in Requests :
        IsDelete(req[x]) /\ req[x].pc = "commit" /\ req'[x].outcome = "ok"}}

\* C18 (as stated): the movement ledger is append-only: once a StockMovement
\* row is committed, no later operation changes any of its fields or removes
\* it.
C18_AppendOnly == [][Extends(movements, movements')]_vars

\* C18 (amended): no operation changes a field of a committed StockMovement,
\* and the only operation that removes one is delete_product, which removes the
\* movements of the product it deletes and no others: every other committed
\* row stays as it was, in its place before the rows the step adds.
C18_AppendOnlyButDelete ==
    [][LET Stays(m) == m.product_id \notin Deleted
       IN  Extends(SelectSeq(movements, Stays), movements')
      ]_vars

\* C18 witness: delete_product removed the movements of its product and the
\* movements of the other product are still there.
C18_Witness ==
    \E r \in Requests :
        /\ Ok(r) /\ IsDelete(req[r])
        /\ req[r].args.product_id = 1
        /\ 1 \notin DOMAIN products
        /\ OfProduct(movements, 1) = <<>>
        /\ OfProduct(movements, 2) # <<>>
        /\ nextMovementId > Len(movements) + 1

References(rows, pid) == \E k \in 1..Len(rows) : rows[k].product_id = pid

\* no movement or line item names a product that does not exist
NoOrphans ==
    \A table \in {movements, saleItems, purchaseItems} :
        \A k \in 1..Len(table) : table[k].product_id \in DOMAIN products

\* C19: deleting a product removes, in the same commit, every StockMovement,
\* every SaleItem and every PurchaseItem that references it, so that in every
\* committed state no movement or line item references a product that does
\* not exist.
C19_DeleteCascades ==
    [][/\ \A r \in Requests :
             (IsDelete(req[r]) /\ req[r].pc = "commit" /\ req'[r].outcome = "ok")
             => LET pid == req[r].args.product_id IN
                /\ pid \notin DOMAIN products'
                /\ ~References(movements', pid)
                /\ ~References(saleItems', pid)
                /\ ~References(purchaseItems', pid)
       /\ NoOrphans'
      ]_vars

IsHistory(s) == s.kind = "get_stock_movements" /\ s.pc = "done"

Ids(rows) == {rows[k].id : k \in 1..Len(rows)}

\* history query t asks for the page after the one query s returned
NextPage(s, t) ==
    /\ IsHistory(s) /\ IsHistory(t)
    /\ t.args.product_id = s.args.product_id
    /\ t.args.movement_type = s.args.movement_type
    /\ t.args.limit = s.args.limit
    /\ t.args.skip = s.args.skip + s.args.limit

\* C20: get_stock_movements returns movements in strictly descending
\* movement_date order, and with no write between the calls consecutive pages
\* (skip = 0, limit, 2*limit, ...) yield every matching movement exactly once:
\* a page shares no movement with the page before it and the two pages hold
\* as many movements as match in their range, also when several movements
\* share a movement_date.
C20_PagesPartition ==
    [][\A r \in Requests :
          /\ IsHistory(req'[r]) =>
                \A j, k \in 1..Len(req'[r].response) :
                    j < k => req'[r].response[j].movement_date
                                > req'[r].response[k].movement_date
          /\ (Acts(r) /\ NextPage(req[r], req'[r])) =>
                LET first == req[r].response
                    second == req'[r].response
                    n == Cardinality(Matching(req[r].args.product_id,
                                              req[r].args.movement_type))
                    m == n - req[r].args.skip
                    upto == 2 * req[r].args.limit
                IN  /\ Ids(first) \cap Ids(second) = {}
                    /\ Len(first) + Len(second)
                          = IF m < 0 THEN 0 ELSE IF m < upto THEN m ELSE upto
      ]_vars

NamesUnique ==
    \A p, q \in DOMAIN products : products[p].name = products[q].name => p = q

\* the name request s wants to give a product, <<>> if it gives none
NameWanted(s) ==
    IF IsCreate(s) THEN <<s.args.name>>
    ELSE IF IsUpdate(s) /\ "name" \in DOMAIN s.args.body THEN <<s.args.body.name>>
    ELSE <<>>

\* the name is that of a product other than the one request s updates
UsedByAnother(s, name) ==
    \E p \in DOMAIN products :
        /\ products[p].name = name
        /\ IsUpdate(s) => p # s.args.product_id

\* C24: in every committed state no two products have the same name; a
\* create_product or update_product asking for a name another product has ends
\* with an error and changes nothing, whether the name was taken before the
\* request started or by a concurrent request before it committed.
C24_UniqueNames ==
    [][/\ NamesUnique /\ NamesUnique'
       /\ \A r \in Requests :
             LET s == req'[r] IN
             (/\ Acts(r) /\ NameWanted(s) # <<>>
              /\ (Free(r) \/ req[r].pc \in {"insert", "commit"})
              /\ req'[r].outcome # "aborted"
              /\ UsedByAnother(s, NameWanted(s)[1])
              /\ IsUpdate(s) => s.args.product_id \in DOMAIN products)
             => /\ req'[r].pc = "done"
                /\ req'[r].outcome \in {"400_name", "500"}
                /\ UNCHANGED <<db, ids>>
      ]_vars

\* C24 witness: two overlapping create_product requests for one name that was
\* free when both started: one committed, the other ended in an error.
C24_Witness ==
    /\ \A r \in Requests : req[r].pc = "done" /\ IsCreate(req[r])
    /\ req[1].args.name = req[2].args.name
    /\ {req[1].outcome, req[2].outcome} = {"ok", "500"}
    /\ Cardinality({p \in DOMAIN products : products[p].name = req[1].args.name}) = 1

\* C25: a ledger-affecting request that conflicts with a concurrent writer on
\* a product row is retried a bounded number of times and then ends with a
\* transient error; it never commits on stale data: when it commits, every
\* product row it read is as it read it.
C25_NoStaleCommit ==
    [][\A r \in Requests :
          (/\ req[r].kind \in LedgerKinds /\ req[r].pc = "commit"
           /\ req'[r].outcome = "ok")
          => \A p \in DOMAIN req[r].loaded :
                p \in DOMAIN products /\ products[p] = req[r].loaded[p]
      ]_vars

Rows(table) == {table[k] : k \in 1..Len(table)}

Least(a, b) == IF a < b THEN a ELSE b

\* C21: the stock-movement history query can be filtered by product id, by
\* movement kind and by time range and returns exactly the movements that
\* match every filter given (all movements when none is given), for every
\* product id including 0: a page of get_stock_movements holds matching rows
\* only, as many as match in its range, and stock_movements_report returns
\* the matching rows.
C21_FiltersExact ==
    [][\A r \in Requests :
          /\ (Acts(r) /\ IsHistory(req'[r])) =>
                LET a == req'[r].args
                    match == {m \in Rows(movements) :
                                /\ a.product_id # <<>> => m.product_id = a.product_id[1]
                                /\ a.movement_type # <<>> =>
                                      m.movement_type = a.movement_type[1]}
                    left == Cardinality(match) - a.skip
                IN  /\ Ids(req'[r].response) \subseteq {m.id : m \in match}
                    /\ Len(req'[r].response)
                          = IF left < 0 THEN 0 ELSE Least(left, a.limit)
          /\ (Acts(r) /\ req'[r].kind = "stock_movements_report") =>
                LET a == req'[r].args
                    match == {m \in Rows(movements) :
                                /\ a.product_id # <<>> => m.product_id = a.product_id[1]
                                /\ a.start_date # <<>> => m.movement_date >= a.start_date[1]
                                /\ a.end_date # <<>> => m.movement_date <= a.end_date[1]}
                IN  /\ Ids(req'[r].response) = {m.id : m \in match}
                    /\ Len(req'[r].response) = Cardinality(match)
      ]_vars

SummaryKinds == {"inventory_summary", "get_inventory_summary"}

\* C22: the inventory summary for threshold t returns total_products = the
\* number of products, total_stock_value = the sum over all products of
\* price * quantity (0 when there are none) and low_stock_items = exactly the
\* products with quantity <= t.
C22_SummaryCorrect ==
    [][\A r \in Requests :
          (Acts(r) /\ req'[r].kind \in SummaryKinds)
          => /\ req'[r].outcome = "ok"
             /\ Len(req'[r].response) = 1
             /\ LET summary == req'[r].response[1]
                    low == {p \in DOMAIN products :
                              products[p].quantity <= req'[r].args.low_stock_threshold}
                IN  /\ summary.total_products = Cardinality(DOMAIN products)
                    /\ summary.total_stock_value = StockValue(DOMAIN products)
                    /\ Ids(summary.low_stock_items) = low
                    /\ Len(summary.low_stock_items) = Cardinality(low)
                    /\ \A k \in 1..Len(summary.low_stock_items) :
                          summary.low_stock_items[k]
                             = ProductResponse(summary.low_stock_items[k].id)
      ]_vars

ReadKinds ==
    {"get_products", "get_product", "get_stock_movements", "get_sales", "get_sale",
     "get_purchases", "get_purchase", "inventory_summary", "get_inventory_summary",
     "sales_report", "stock_movements_report"}

\* C23: the read-only handlers (get_products, get_product, get_stock_movements,
\* get_sales, get_sale, get_purchases, get_purchase, the inventory summaries,
\* sales_report, stock_movements_report) leave products, movements, sales,
\* purchases and their line items unchanged (and draw no id).
C23_ReadsChangeNothing ==
    [][\A r \in Requests :
          (Acts(r) /\ req'[r].kind \in ReadKinds) => UNCHANGED <<db, ids>>
      ]_vars

\* C23 witness: get_sale returned a sale whose items went with a deleted
\* product; the stored total is still the one the sale was committed with.
C23_Witness ==
    \E r \in Requests :
        /\ req[r].pc = "done" /\ req[r].kind = "get_sale" /\ req[r].outcome = "ok"
        /\ req[r].response[1].items = <<>>
        /\ req[r].response[1].total_amount > 0
        /\ sales[req[r].args.sale_id].total_amount = req[r].response[1].total_amount

\* the step is the answer to an account request op
Answers(op) == authCalls' = authCalls + 1 /\ reply'.op = op

\* C26: a password-reset token is single-use and expiring.  reset_password
\* succeeds exactly for a token that is in reset_tokens, has not expired and
\* whose user exists; a success sets that user's password and removes the
\* token; an expired token is removed when it is read; every other
\* reset_password (unknown token included) changes no user; and a token that
\* enters reset_tokens is a fresh one, so a token once removed fails for good.
C26_ResetTokenSingleUse ==
    [][/\ Answers("reset_password") =>
            LET token == reply'.args.token
                known == token \in DOMAIN reset_tokens
                expired == known /\ now > reset_tokens[token].expires_at
                usable == /\ known /\ ~expired
                          /\ reset_tokens[token].user_id \in DOMAIN users
            IN  /\ (reply'.status = "ok") <=> usable
                /\ usable =>
                      /\ users' = [users EXCEPT ![reset_tokens[token].user_id].password =
                                                    Hash(reply'.args.new_password)]
                      /\ reset_tokens' = Without(reset_tokens, token)
                /\ expired => reset_tokens' = Without(reset_tokens, token)
                /\ ~usable => users' = users
                /\ (~usable /\ ~expired) => reset_tokens' = reset_tokens
       /\ \A t \in DOMAIN reset_tokens' \ DOMAIN reset_tokens :
             t = nextToken /\ nextToken' > t
       /\ nextToken' >= nextToken
      ]_vars

\* C26 witness: the only reset token issued (2; 1 is the verification token,
\* still held) was used, the password is the new one, and the second
\* reset_password with it, before its expiry, was refused.
C26_Witness ==
    /\ reply.op = "reset_password" /\ reply.status = "400"
    /\ reply.args.token = 2 /\ nextToken = 3
    /\ 1 \in DOMAIN verification_tokens
    /\ 2 \notin DOMAIN reset_tokens
    /\ now = 0 /\ bearer = <<>>
    /\ 1 \in DOMAIN users /\ users[1].password = Hash(reply.args.new_password)

\* C27: an account-verification token is single-use.  verify_account succeeds
\* exactly for a token that is in verification_tokens, has not expired and
\* whose user exists, and then sets is_active of that user and removes the
\* token; an expired token is removed; a token whose user is gone stays; every
\* failing verify_account changes no user; a token that enters
\* verification_tokens is a fresh one, so a removed token fails for good.
C27_VerificationTokenSingleUse ==
    [][/\ Answers("verify_account") =>
            LET token == reply'.args.token
                known == token \in DOMAIN verification_tokens
                expired == known /\ now > verification_tokens[token].expires_at
                usable == /\ known /\ ~expired
                          /\ verification_tokens[token].user_id \in DOMAIN users
            IN  /\ (reply'.status = "ok") <=> usable
                /\ usable =>
                      /\ users' = [users EXCEPT
                            ![verification_tokens[token].user_id].is_active = TRUE]
                      /\ verification_tokens' = Without(verification_tokens, token)
                /\ expired => verification_tokens' = Without(verification_tokens, token)
                /\ ~usable => users' = users
                /\ (~usable /\ ~expired) => verification_tokens' = verification_tokens
       /\ \A t \in DOMAIN verification_tokens' \ DOMAIN verification_tokens :
             t = nextToken /\ nextToken' > t
       /\ nextToken' >= nextToken
      ]_vars

\* C27 witness: three requests, the account registered, verified with its
\* token, and the same token refused on the second verify_account.
C27_Witness ==
    /\ reply.op = "verify_account" /\ reply.status = "400"
    /\ authCalls = 3 /\ now = 0
    /\ reply.args.token = 1 /\ nextToken = 2
    /\ 1 \in DOMAIN users /\ users[1].is_active
    /\ DOMAIN verification_tokens = {}

\* the token the client sends passes get_current_user
Authenticated ==
    /\ bearer # <<>>
    /\ now <= bearer[1].exp
    /\ bearer[1].user_id \in DOMAIN users
    /\ users[bearer[1].user_id].is_active

CurrentUserOps == {"get_me", "change_password", "get_users", "delete_user"}

\* C28: a user created by create_user is inactive; login (authenticate_user)
\* succeeds exactly when a user of that name has that password and is
\* active; is_active becomes True only by a successful verify_account or an
\* update_user that sets it; and a route behind get_current_user answers 401
\* unless the token is valid and its user exists and is active.
C28_InactiveCannotEnter ==
    [][/\ Answers("login") =>
            ((reply'.status = "ok") <=>
                \E u \in DOMAIN users :
                    /\ users[u].username = reply'.args.username
                    /\ users[u].password = Hash(reply'.args.password)
                    /\ users[u].is_active)
       /\ (Answers("login") /\ reply'.status = "ok") =>
             /\ bearer'[1].user_id \in DOMAIN users
             /\ users[bearer'[1].user_id].is_active
       /\ \A u \in DOMAIN users' :
             (users'[u].is_active /\ (u \notin DOMAIN users \/ ~users[u].is_active))
             => \/ /\ Answers("verify_account") /\ reply'.status = "ok"
                   /\ u \in DOMAIN users
                \/ /\ Answers("update_user") /\ reply'.args.user_id = u
                   /\ reply'.args.is_active = <<TRUE>>
       /\ \A op \in CurrentUserOps :
             (Answers(op) /\ ~Authenticated) => (reply'.status = "401" /\ users' = users)
       /\ \A r \in Requests :
             (Free(r) /\ Acts(r) /\ IsDelete(req'[r]) /\ ~Authenticated)
             => req'[r].pc = "done" /\ req'[r].outcome = "401"
      ]_vars

\* C28 witness: login with the right password of a registered account that
\* was not activated is refused.
C28_Witness ==
    /\ reply.op = "login" /\ reply.status = "401"
    /\ \E u \in DOMAIN users :
          /\ users[u].username = reply.args.username
          /\ users[u].password = Hash(reply.args.password)
          /\ ~users[u].is_active

\* the token the client sends passes get_admin_user
AdminCaller == Authenticated /\ users[bearer[1].user_id].role = "admin"

AdminOps == {"get_users", "delete_user"}

\* what every guarded request does to its caller and on a self-delete
GuardedFrame ==
    /\ Answers("delete_user") =>
          /\ (AdminCaller /\ reply'.args.user_id = bearer[1].user_id)
                => (reply'.status = "400" /\ users' = users)
          /\ Authenticated => bearer[1].user_id \in DOMAIN users'
          /\ ~AdminCaller => users' = users
          /\ \A u \in DOMAIN users \ {reply'.args.user_id} :
                u \in DOMAIN users' /\ users'[u] = users[u]
    /\ Answers("get_users") => users' = users
    /\ \A r \in Requests :
          (Free(r) /\ Acts(r) /\ IsDelete(req'[r]) /\ ~AdminCaller)
          => (req'[r].pc = "done" /\ UNCHANGED db)

\* C29: delete_product, get_users and delete_user have an effect only for a
\* caller who is an active user with role admin; any other caller gets 403
\* and nothing changes; an admin who names their own id in delete_user gets
\* 400 and stays, so delete_user never removes its caller.
C29_AdminOnly403 ==
    [][/\ GuardedFrame
       /\ \A op \in AdminOps :
             (Answers(op) /\ ~AdminCaller) => reply'.status = "403"
       /\ \A r \in Requests :
             (Free(r) /\ Acts(r) /\ IsDelete(req'[r]) /\ ~AdminCaller)
             => req'[r].outcome = "403"
      ]_vars

\* C29 as amended: as above, but a caller who is not an active admin is
\* refused with 401 when the token is missing or expired or its user is gone
\* or inactive, and with 403 when the user is active and not an admin.
C29_AdminOnly ==
    [][/\ GuardedFrame
       /\ \A op \in AdminOps :
             /\ (Answers(op) /\ ~Authenticated) => reply'.status = "401"
             /\ (Answers(op) /\ Authenticated /\ ~AdminCaller) => reply'.status = "403"
             /\ (Answers(op) /\ AdminCaller) => reply'.status \notin {"401", "403"}
       /\ \A r \in Requests :
             (Free(r) /\ Acts(r) /\ IsDelete(req'[r]))
             => /\ ~Authenticated => req'[r].outcome = "401"
                /\ (Authenticated /\ ~AdminCaller) => req'[r].outcome = "403"
                /\ AdminCaller => req'[r].outcome \notin {"401", "403"}
      ]_vars

\* C29 witness: an admin named their own id in delete_user, was answered 400
\* and is still in the table.
C29_Witness ==
    /\ reply.op = "delete_user" /\ reply.status = "400"
    /\ bearer # <<>> /\ reply.args.user_id = bearer[1].user_id
    /\ bearer[1].user_id \in DOMAIN users
    /\ users[bearer[1].user_id].role = "admin"

\* C30: forgot_password answers the same for every email and every state, and
\* leaves a new reset token, for the user of the email and valid one hour,
\* exactly when the email belongs to a user.
C30_ForgotPasswordSilent ==
    [][Answers("forgot_password") =>
          /\ reply'.status = "ok"
          /\ reply'.message = "Instrucciones enviadas si el correo existe"
          /\ reply'.body = <<>>
          /\ users' = users
          /\ LET owners == {u \in DOMAIN users : users[u].email = reply'.args.email}
             IN  IF owners = {}
                 THEN reset_tokens' = reset_tokens
                 ELSE \E u \in owners, t \in DOMAIN reset_tokens' \ DOMAIN reset_tokens :
                         reset_tokens' = reset_tokens @@
                            (t :> [user_id |-> u, expires_at |-> now + ResetLife])
      ]_vars

\* C30 witness: forgot_password for an email no user has, with users
\* registered, was answered and no reset token exists.
C30_Witness ==
    /\ reply.op = "forgot_password"
    /\ DOMAIN users # {}
    /\ \A u \in DOMAIN users : users[u].email # reply.args.email
    /\ DOMAIN reset_tokens = {}
    /\ reply.message = "Instrucciones enviadas si el correo existe"

====
